---- MODULE Spec2Model ----
(***************************************************************************)
(* Line alignment (computeLineDiff) and character similarity               *)
(* (calculateSimilarity) of the CodeCheckup store, src/store/useCodeStore. *)
(*                                                                         *)
(* A string is a sequence of one-character strings; a document is a        *)
(* sequence of such lines.  Code indices are 0-based, sequences here are   *)
(* 1-based: the code's originalLines[i - 1] is originalLines[i] below,     *)
(* and the stored originalIndex / modifiedIndex keep the code's 0-based    *)
(* values.                                                                 *)
(***************************************************************************)
EXTENDS Integers, Sequences, FiniteSets, TLC

\* A call of computeLineDiff: its arguments, its locals and the position
\* pc in it.
VARIABLES originalLines, modifiedLines, dp, i, j, result, pc

\* A call of calculateSimilarity: its arguments simStr1 and simStr2, its
\* local diffs, the value it returns and the position simPc in it.
VARIABLES simStr1, simStr2, simDiffs, simResult, simPc

\* The store: its fields, the two localStorage items it keeps and the clock
\* Date.now() reads.
VARIABLES originalCode, modifiedCode, diffLines, lineDiffs, history,
          isComparing, selectedLanguage, isDarkMode,
          storedHistory, storedTheme, now

\* A record of the first compareCode of a run: the store as that call left
\* it.  It is written once and never read by the store.
VARIABLES firstComparison

\* A component that renders useDebounce(value, delay): the value it passes,
\* the hook's state and the timer its effect holds.  unchangedFor, generation,
\* emitted and cleared are records of the run the hook never reads: the time
\* since the value last changed, the number of changes, the change whose value
\* was last set as debounced value, and the number of timers cleared while
\* they were pending.
VARIABLES inputValue, debouncedValue, handler, unchangedFor, generation,
          emitted, cleared

lineDiffVars == <<originalLines, modifiedLines, dp, i, j, result, pc>>
similarityVars == <<simStr1, simStr2, simDiffs, simResult, simPc>>
storeVars ==
  <<originalCode, modifiedCode, diffLines, lineDiffs, history, isComparing,
    selectedLanguage, isDarkMode, storedHistory, storedTheme, now,
    firstComparison>>

\* Home: its autoCompare state, its two useDebounce hooks (debounced value
\* and timer of each) and, as records of the run nothing reads, the time
\* since each document of the store last changed.
VARIABLES autoCompare, debouncedOriginalCode, debouncedModifiedCode,
          handlerOriginal, handlerModified,
          originalUnchangedFor, modifiedUnchangedFor

\* Home's currentLine, which the navigator reads and navigateToLine sets,
\* and, as a record of the run nothing reads, the calls of onNavigate: the
\* button pressed, the line passed and diffLines at that time.
VARIABLES currentLine, navigated

navigatorVars == <<currentLine, navigated>>

\* localStorage and importHistory: quotaExceeded says that
\* localStorage.setItem throws (the quota is used up, or the browser denies
\* storage); importReturned is what the last call of importHistory returned.
VARIABLES quotaExceeded, importReturned

storageVars == <<quotaExceeded, importReturned>>

homeVars ==
  <<autoCompare, debouncedOriginalCode, debouncedModifiedCode, handlerOriginal,
    handlerModified, originalUnchangedFor, modifiedUnchangedFor>>

hookVars ==
  <<inputValue, debouncedValue, handler, unchangedFor, generation, emitted,
    cleared>>

vars ==
  <<lineDiffVars, similarityVars, storeVars, hookVars, homeVars, navigatorVars,
    storageVars>>

(***************************************************************************)
(* Bounds of the model.                                                    *)
(***************************************************************************)
MaxOriginalLines == 3
MaxModifiedLines == 3
MaxStringLength == 4
\* The clock advances at most MaxTicks times, and at most
\* MaxSavesPerMillisecond records are saved between two of its ticks.
MaxTicks == 1
MaxSavesPerMillisecond == 1
\* The delay given to useDebounce, in ticks of the timers' clock, and the
\* number of times the value given to the hook changes.
DebounceDelay == 2
MaxChanges == 3
\* The number of ticks of the timers' clock that pass while Home is open.
MaxElapsed == 4
\* The number of calls of onNavigate.
MaxNavigations == 6

\* The lines documents are built from.  Between them they give a pair that
\* is trimmed-equal but not equal (" abc" / "abc"), pairs without a common
\* character ("abc" / "defghij": similarity 0), and similarities above the
\* threshold ("abcdefghij" / "defghij": 7/10), equal to it
\* ("abc" / "abcdefghij": 3/10) and below it (" abc" / "abcdefghij": 3/11).
LineABC == <<"a", "b", "c">>
LineSpaceABC == <<" ", "a", "b", "c">>
LineLong == <<"a", "b", "c", "d", "e", "f", "g", "h", "i", "j">>
LineTail == <<"d", "e", "f", "g", "h", "i", "j">>

Lines == {LineABC, LineSpaceABC, LineLong, LineTail}

SeqsUpTo(S, n) == UNION {[1..k -> S] : k \in 0..n}

\* The characters the strings given to calculateSimilarity are built from.
Chars == {"a", "b", " "}

(***************************************************************************)
(* Strings.                                                                *)
(***************************************************************************)
Max(a, b) == IF a > b THEN a ELSE b
Min(a, b) == IF a < b THEN a ELSE b

\* White space as String.prototype.trim sees it, within the alphabet used.
WhiteSpace == {" ", "\t", "\n"}

RECURSIVE trimStart(_)
trimStart(s) ==
  IF s # <<>> /\ Head(s) \in WhiteSpace THEN trimStart(Tail(s)) ELSE s

RECURSIVE trimEnd(_)
trimEnd(s) ==
  IF s # <<>> /\ s[Len(s)] \in WhiteSpace
  THEN trimEnd(SubSeq(s, 1, Len(s) - 1))
  ELSE s

trim(s) == trimEnd(trimStart(s))

\* String.prototype.substring: arguments below 0 or above the length are
\* clamped (the two-argument calls of the library never pass from > to).
clamp(s, k) == IF k < 0 THEN 0 ELSE IF k > Len(s) THEN Len(s) ELSE k
substring(s, from, to) == SubSeq(s, clamp(s, from) + 1, clamp(s, to))
substringFrom(s, from) == substring(s, from, Len(s))

\* s.indexOf(pat, from): the first 0-based position >= from where pat
\* occurs in s, or -1.
least(hits) == IF hits = {} THEN -1 ELSE CHOOSE k \in hits : \A h \in hits : k <= h

indexOfFrom(s, pat, from) ==
  least({k \in clamp(s, from)..(Len(s) - Len(pat)) :
           SubSeq(s, k + 1, k + Len(pat)) = pat})

indexOf(s, pat) == indexOfFrom(s, pat, 0)

(***************************************************************************)
(* The character diff of the diff-match-patch library, as the program      *)
(* calls it: dmp.diff_main(a, b) followed by dmp.diff_cleanupSemantic, on  *)
(* an instance with the library's default settings (Diff_Timeout = 1.0,    *)
(* checklines = true).  An edit script is a sequence of pairs              *)
(* <<operation, text>>.  Two paths of the library are outside the bounds   *)
(* of the model: the line-mode speed-up, taken only when both texts are    *)
(* longer than 100 characters, and the one-second deadline of the bisect.  *)
(***************************************************************************)
DIFF_DELETE == -1
DIFF_INSERT == 1
DIFF_EQUAL == 0

\* Array.prototype.splice(start, deleteCount, ...items), 0-based start.
splice(a, start, deleteCount, items) ==
  SubSeq(a, 1, start) \o items \o SubSeq(a, start + deleteCount + 1, Len(a))

setOp(diffs, p, op) == [diffs EXCEPT ![p + 1] = <<op, @[2]>>]
setText(diffs, p, text) == [diffs EXCEPT ![p + 1] = <<@[1], text>>]

RECURSIVE diff_commonPrefix(_, _)
diff_commonPrefix(text1, text2) ==
  IF text1 = <<>> \/ text2 = <<>> \/ Head(text1) # Head(text2)
  THEN 0
  ELSE 1 + diff_commonPrefix(Tail(text1), Tail(text2))

RECURSIVE diff_commonSuffix(_, _)
diff_commonSuffix(text1, text2) ==
  IF text1 = <<>> \/ text2 = <<>> \/ text1[Len(text1)] # text2[Len(text2)]
  THEN 0
  ELSE 1 + diff_commonSuffix(SubSeq(text1, 1, Len(text1) - 1),
                             SubSeq(text2, 1, Len(text2) - 1))

\* The number of characters common to the end of text1 and the start of
\* text2.
greatest(fits) == CHOOSE k \in fits : \A h \in fits : h <= k

diff_commonOverlap(text1, text2) ==
  greatest({k \in 0..Min(Len(text1), Len(text2)) :
              SubSeq(text1, Len(text1) - k + 1, Len(text1)) = SubSeq(text2, 1, k)})

\* Math.floor(n / 4), Math.ceil(n / 4), Math.ceil(n / 2) for n >= 0.
ceilDiv(n, k) == (n + k - 1) \div k

\* diff_halfMatchI_: the best common middle around the quarter-length seed
\* that starts at pos in longtext.  halfMatchScan is its while loop over
\* the occurrences jj of the seed in shorttext, from jFrom on.
halfMatchBest(longtext, shorttext, pos, jj, prefixLength, suffixLength, best) ==
  IF Len(best.common) < suffixLength + prefixLength
  THEN [common |-> substring(shorttext, jj - suffixLength, jj)
                     \o substring(shorttext, jj, jj + prefixLength),
        longtext_a |-> substring(longtext, 0, pos - suffixLength),
        longtext_b |-> substringFrom(longtext, pos + prefixLength),
        shorttext_a |-> substring(shorttext, 0, jj - suffixLength),
        shorttext_b |-> substringFrom(shorttext, jj + prefixLength)]
  ELSE best

RECURSIVE halfMatchScan(_, _, _, _, _, _)
RECURSIVE halfMatchFound(_, _, _, _, _, _)

halfMatchFound(longtext, shorttext, pos, seed, jj, best) ==
  IF jj = -1
  THEN best
  ELSE halfMatchScan(longtext, shorttext, pos, seed, jj + 1,
         halfMatchBest(longtext, shorttext, pos, jj,
                       diff_commonPrefix(substringFrom(longtext, pos),
                                         substringFrom(shorttext, jj)),
                       diff_commonSuffix(substring(longtext, 0, pos),
                                         substring(shorttext, 0, jj)),
                       best))

halfMatchScan(longtext, shorttext, pos, seed, jFrom, best) ==
  halfMatchFound(longtext, shorttext, pos, seed,
                 indexOfFrom(shorttext, seed, jFrom), best)

NoHalfMatch ==
  [common |-> <<>>, longtext_a |-> <<>>, longtext_b |-> <<>>,
   shorttext_a |-> <<>>, shorttext_b |-> <<>>]

\* found is FALSE for the library's null
halfMatchResult(longtext, best) ==
  [found |-> Len(best.common) * 2 >= Len(longtext), hm |-> best]

diff_halfMatchI(longtext, shorttext, pos) ==
  halfMatchResult(longtext,
    halfMatchScan(longtext, shorttext, pos,
                  substring(longtext, pos, pos + (Len(longtext) \div 4)),
                  0, NoHalfMatch))

\* diff_halfMatch_: do the two texts share a substring at least half as
\* long as the longer text?
halfMatchTexts(hm, text1IsLong) ==
  IF text1IsLong
  THEN [found |-> TRUE, text1_a |-> hm.longtext_a, text1_b |-> hm.longtext_b,
        text2_a |-> hm.shorttext_a, text2_b |-> hm.shorttext_b,
        mid_common |-> hm.common]
  ELSE [found |-> TRUE, text1_a |-> hm.shorttext_a, text1_b |-> hm.shorttext_b,
        text2_a |-> hm.longtext_a, text2_b |-> hm.longtext_b,
        mid_common |-> hm.common]

halfMatchChoose(hm1, hm2, text1IsLong) ==
  IF ~hm1.found /\ ~hm2.found
  THEN [found |-> FALSE]
  ELSE halfMatchTexts(IF ~hm2.found THEN hm1.hm
                      ELSE IF ~hm1.found THEN hm2.hm
                      ELSE IF Len(hm1.hm.common) > Len(hm2.hm.common) THEN hm1.hm
                      ELSE hm2.hm,
                      text1IsLong)

halfMatchOrdered(longtext, shorttext, text1IsLong) ==
  IF Len(longtext) < 4 \/ Len(shorttext) * 2 < Len(longtext)
  THEN [found |-> FALSE]
  ELSE halfMatchChoose(
         diff_halfMatchI(longtext, shorttext, ceilDiv(Len(longtext), 4)),
         diff_halfMatchI(longtext, shorttext, ceilDiv(Len(longtext), 2)),
         text1IsLong)

diff_halfMatch(text1, text2) ==
  IF Len(text1) > Len(text2)
  THEN halfMatchOrdered(text1, text2, TRUE)
  ELSE halfMatchOrdered(text2, text1, FALSE)

(***************************************************************************)
(* diff_bisect_: the middle snake of Myers' O(ND) algorithm, walking a     *)
(* front and a reverse path until they overlap.  The state of its loops is *)
(* a record: the furthest-x arrays v1 and v2, the k-range trims, and the   *)
(* split point once found.                                                 *)
(***************************************************************************)
RECURSIVE snakeFront(_, _, _, _)
snakeFront(text1, text2, x, y) ==
  IF x < Len(text1) /\ y < Len(text2) /\ text1[x + 1] = text2[y + 1]
  THEN snakeFront(text1, text2, x + 1, y + 1)
  ELSE x

RECURSIVE snakeReverse(_, _, _, _)
snakeReverse(text1, text2, x, y) ==
  IF x < Len(text1) /\ y < Len(text2)
     /\ text1[Len(text1) - x] = text2[Len(text2) - y]
  THEN snakeReverse(text1, text2, x + 1, y + 1)
  ELSE x

bisectMaxD(text1, text2) == ceilDiv(Len(text1) + Len(text2), 2)

bisectInit(max_d) ==
  [v1 |-> [x \in 0..(2 * max_d - 1) |-> IF x = max_d + 1 THEN 0 ELSE -1],
   v2 |-> [x \in 0..(2 * max_d - 1) |-> IF x = max_d + 1 THEN 0 ELSE -1],
   k1start |-> 0, k1end |-> 0, k2start |-> 0, k2end |-> 0,
   found |-> FALSE, x |-> 0, y |-> 0]

\* var front = (delta % 2 != 0)
bisectIsFront(text1, text2) == (Len(text1) - Len(text2)) % 2 # 0

\* The start of the snake on diagonal k of the array v (v1 or v2).
bisectStartX(v, d, k, k_offset) ==
  IF k = -d \/ (k # d /\ v[k_offset - 1] < v[k_offset + 1])
  THEN v[k_offset + 1]
  ELSE v[k_offset - 1] + 1

\* The front path's inner loop, from diagonal k1 on; bisectFrontStep is its
\* body once the snake has run to x1.
RECURSIVE bisectFront(_, _, _, _, _)
RECURSIVE bisectFrontStep(_, _, _, _, _, _, _)

bisectFrontStep(text1, text2, d, k1, st, x1, k2_offset) ==
  IF x1 > Len(text1)
  THEN bisectFront(text1, text2, d, k1 + 2, [st EXCEPT !.k1end = @ + 2])
  ELSE IF x1 - k1 > Len(text2)
  THEN bisectFront(text1, text2, d, k1 + 2, [st EXCEPT !.k1start = @ + 2])
  ELSE IF bisectIsFront(text1, text2)
          /\ k2_offset >= 0 /\ k2_offset < 2 * bisectMaxD(text1, text2)
          /\ st.v2[k2_offset] # -1
          /\ x1 >= Len(text1) - st.v2[k2_offset]
  THEN [st EXCEPT !.found = TRUE, !.x = x1, !.y = x1 - k1]
  ELSE bisectFront(text1, text2, d, k1 + 2, st)

bisectFrontSnake(text1, text2, d, k1, st, k1_offset, x1) ==
  bisectFrontStep(text1, text2, d, k1, [st EXCEPT !.v1[k1_offset] = x1], x1,
                  bisectMaxD(text1, text2) + (Len(text1) - Len(text2)) - k1)

bisectFrontStart(text1, text2, d, k1, st, k1_offset, x0) ==
  bisectFrontSnake(text1, text2, d, k1, st, k1_offset,
                   snakeFront(text1, text2, x0, x0 - k1))

bisectFront(text1, text2, d, k1, st) ==
  IF k1 > d - st.k1end
  THEN st
  ELSE bisectFrontStart(text1, text2, d, k1, st, bisectMaxD(text1, text2) + k1,
         bisectStartX(st.v1, d, k1, bisectMaxD(text1, text2) + k1))

\* The reverse path's inner loop, from diagonal k2 on.
RECURSIVE bisectReverse(_, _, _, _, _)
RECURSIVE bisectReverseStep(_, _, _, _, _, _, _)

bisectReverseStep(text1, text2, d, k2, st, x2, k1_offset) ==
  IF x2 > Len(text1)
  THEN bisectReverse(text1, text2, d, k2 + 2, [st EXCEPT !.k2end = @ + 2])
  ELSE IF x2 - k2 > Len(text2)
  THEN bisectReverse(text1, text2, d, k2 + 2, [st EXCEPT !.k2start = @ + 2])
  ELSE IF ~bisectIsFront(text1, text2)
          /\ k1_offset >= 0 /\ k1_offset < 2 * bisectMaxD(text1, text2)
          /\ st.v1[k1_offset] # -1
          /\ st.v1[k1_offset] >= Len(text1) - x2
  THEN [st EXCEPT !.found = TRUE,
                  !.x = st.v1[k1_offset],
                  !.y = bisectMaxD(text1, text2) + st.v1[k1_offset] - k1_offset]
  ELSE bisectReverse(text1, text2, d, k2 + 2, st)

bisectReverseSnake(text1, text2, d, k2, st, k2_offset, x2) ==
  bisectReverseStep(text1, text2, d, k2, [st EXCEPT !.v2[k2_offset] = x2], x2,
                    bisectMaxD(text1, text2) + (Len(text1) - Len(text2)) - k2)

bisectReverseStart(text1, text2, d, k2, st, k2_offset, x0) ==
  bisectReverseSnake(text1, text2, d, k2, st, k2_offset,
                     snakeReverse(text1, text2, x0, x0 - k2))

bisectReverse(text1, text2, d, k2, st) ==
  IF k2 > d - st.k2end
  THEN st
  ELSE bisectReverseStart(text1, text2, d, k2, st, bisectMaxD(text1, text2) + k2,
         bisectStartX(st.v2, d, k2, bisectMaxD(text1, text2) + k2))

\* The outer loop over the edit distance d: one step of the front path,
\* then one of the reverse path.
RECURSIVE bisectLoop(_, _, _, _)
RECURSIVE bisectAfterFront(_, _, _, _)
RECURSIVE bisectAfterReverse(_, _, _, _)

bisectAfterReverse(text1, text2, d, st) ==
  IF st.found THEN st ELSE bisectLoop(text1, text2, d + 1, st)

bisectAfterFront(text1, text2, d, st) ==
  IF st.found
  THEN st
  ELSE bisectAfterReverse(text1, text2, d,
         bisectReverse(text1, text2, d, -d + st.k2start, st))

bisectLoop(text1, text2, d, st) ==
  IF d >= bisectMaxD(text1, text2)
  THEN st
  ELSE bisectAfterFront(text1, text2, d,
         bisectFront(text1, text2, d, -d + st.k1start, st))

(***************************************************************************)
(* diff_cleanupMerge: reorder and merge like edit sections, merge          *)
(* equalities, factor the common prefix and suffix out of a delete/insert  *)
(* pair, then slide single edits over a neighbouring equality.             *)
(***************************************************************************)
\* First pass; diffs carries the dummy equality at its end.  mergeRun* is
\* the case "upon reaching an equality, check for prior redundancies" for
\* a run of run edits that ends before pointer:
\*   mergeRunPrefix factors the common prefix pre out of the run,
\*   mergeRunSuffix the common suffix suf, mergeRunPut replaces the run.
RECURSIVE mergePass1(_, _, _, _, _, _)
RECURSIVE mergeRunPut(_, _, _, _)

mergeRunPut(diffs, pointer, run, merged) ==
  mergePass1(splice(diffs, pointer, run, merged), pointer + Len(merged) + 1,
             0, 0, <<>>, <<>>)

mergeRunSuffix(diffs, pointer, run, text_delete, text_insert, suf) ==
  mergeRunPut(
    IF suf = 0
    THEN diffs
    ELSE setText(diffs, pointer,
                 substringFrom(text_insert, Len(text_insert) - suf)
                   \o diffs[pointer + 1][2]),
    pointer - run, run,
    (IF Len(text_delete) - suf > 0
     THEN <<<<DIFF_DELETE, substring(text_delete, 0, Len(text_delete) - suf)>>>>
     ELSE <<>>)
    \o (IF Len(text_insert) - suf > 0
        THEN <<<<DIFF_INSERT, substring(text_insert, 0, Len(text_insert) - suf)>>>>
        ELSE <<>>))

mergeRunFactored(diffs, pointer, run, both, text_delete, text_insert) ==
  mergeRunSuffix(diffs, pointer, run, text_delete, text_insert,
                 IF both THEN diff_commonSuffix(text_insert, text_delete) ELSE 0)

mergeRunPrefix(diffs, pointer, run, both, text_delete, text_insert, pre) ==
  IF pre = 0
  THEN mergeRunFactored(diffs, pointer, run, both, text_delete, text_insert)
  ELSE IF pointer - run > 0 /\ diffs[pointer - run][1] = DIFF_EQUAL
  THEN mergeRunFactored(
         setText(diffs, pointer - run - 1,
                 diffs[pointer - run][2] \o substring(text_insert, 0, pre)),
         pointer, run, both,
         substringFrom(text_delete, pre), substringFrom(text_insert, pre))
  ELSE mergeRunFactored(
         splice(diffs, 0, 0, <<<<DIFF_EQUAL, substring(text_insert, 0, pre)>>>>),
         pointer + 1, run, both,
         substringFrom(text_delete, pre), substringFrom(text_insert, pre))

mergeRun(diffs, pointer, run, both, text_delete, text_insert) ==
  mergeRunPrefix(diffs, pointer, run, both, text_delete, text_insert,
                 IF both THEN diff_commonPrefix(text_insert, text_delete) ELSE 0)

mergePass1(diffs, pointer, count_delete, count_insert, text_delete, text_insert) ==
  IF pointer >= Len(diffs)
  THEN diffs
  ELSE IF diffs[pointer + 1][1] = DIFF_INSERT
  THEN mergePass1(diffs, pointer + 1, count_delete, count_insert + 1,
                  text_delete, text_insert \o diffs[pointer + 1][2])
  ELSE IF diffs[pointer + 1][1] = DIFF_DELETE
  THEN mergePass1(diffs, pointer + 1, count_delete + 1, count_insert,
                  text_delete \o diffs[pointer + 1][2], text_insert)
  ELSE IF count_delete + count_insert > 1
  THEN mergeRun(diffs, pointer, count_delete + count_insert,
                count_delete # 0 /\ count_insert # 0, text_delete, text_insert)
  ELSE IF pointer # 0 /\ diffs[pointer][1] = DIFF_EQUAL
  THEN mergePass1(splice(setText(diffs, pointer - 1,
                                 diffs[pointer][2] \o diffs[pointer + 1][2]),
                         pointer, 1, <<>>),
                  pointer, 0, 0, <<>>, <<>>)
  ELSE mergePass1(diffs, pointer + 1, 0, 0, <<>>, <<>>)

\* Second pass: a single edit between two equalities is shifted over the
\* previous or over the next equality.  Returns the array and whether it
\* changed.
RECURSIVE mergePass2(_, _, _)
RECURSIVE mergeShift(_, _, _, _, _, _)

mergeShift(diffs, pointer, changes, prev, edit, next) ==
  IF substringFrom(edit, Len(edit) - Len(prev)) = prev
  THEN mergePass2(
         splice(setText(setText(diffs, pointer,
                                prev \o substring(edit, 0, Len(edit) - Len(prev))),
                        pointer + 1, prev \o next),
                pointer - 1, 1, <<>>),
         pointer + 1, TRUE)
  ELSE IF substring(edit, 0, Len(next)) = next
  THEN mergePass2(
         splice(setText(setText(diffs, pointer - 1, prev \o next),
                        pointer, substringFrom(edit, Len(next)) \o next),
                pointer + 1, 1, <<>>),
         pointer + 1, TRUE)
  ELSE mergePass2(diffs, pointer + 1, changes)

mergePass2(diffs, pointer, changes) ==
  IF pointer >= Len(diffs) - 1
  THEN [diffs |-> diffs, changes |-> changes]
  ELSE IF diffs[pointer][1] = DIFF_EQUAL /\ diffs[pointer + 2][1] = DIFF_EQUAL
  THEN mergeShift(diffs, pointer, changes,
                  diffs[pointer][2], diffs[pointer + 1][2], diffs[pointer + 2][2])
  ELSE mergePass2(diffs, pointer + 1, changes)

\* if (diffs[diffs.length - 1][1] === '') diffs.pop()
mergeDropDummy(diffs) ==
  IF diffs[Len(diffs)][2] = <<>> THEN SubSeq(diffs, 1, Len(diffs) - 1) ELSE diffs

RECURSIVE diff_cleanupMerge(_)
RECURSIVE mergeAgain(_)

\* if (changes) this.diff_cleanupMerge(diffs)
mergeAgain(second) ==
  IF second.changes THEN diff_cleanupMerge(second.diffs) ELSE second.diffs

diff_cleanupMerge(diffs) ==
  mergeAgain(
    mergePass2(
      mergeDropDummy(
        mergePass1(Append(diffs, <<DIFF_EQUAL, <<>>>>), 0, 0, 0, <<>>, <<>>)),
      1, FALSE))

(***************************************************************************)
(* diff_main and diff_compute_.                                            *)
(***************************************************************************)
RECURSIVE diff_main(_, _)
RECURSIVE diff_compute(_, _)
RECURSIVE diff_bisect(_, _)
RECURSIVE diff_bisectSplit(_, _, _)
RECURSIVE computeHalfMatch(_, _, _)
RECURSIVE computeContained(_, _, _, _, _, _)
RECURSIVE mainCompute(_, _, _, _)

\* diff_bisectSplit_: diff the two halves on either side of the middle
\* snake; without any overlap the texts have nothing in common.
diff_bisectSplit(text1, text2, st) ==
  IF st.found
  THEN diff_main(substring(text1, 0, st.x), substring(text2, 0, st.y))
       \o diff_main(substringFrom(text1, st.x), substringFrom(text2, st.y))
  ELSE <<<<DIFF_DELETE, text1>>, <<DIFF_INSERT, text2>>>>

diff_bisect(text1, text2) ==
  diff_bisectSplit(text1, text2,
    bisectLoop(text1, text2, 0, bisectInit(bisectMaxD(text1, text2))))

\* diff_compute_ from the half-match on
computeHalfMatch(text1, text2, hm) ==
  IF hm.found
  THEN diff_main(hm.text1_a, hm.text2_a)
       \o <<<<DIFF_EQUAL, hm.mid_common>>>>
       \o diff_main(hm.text1_b, hm.text2_b)
  ELSE diff_bisect(text1, text2)

\* diff_compute_ from i = longtext.indexOf(shorttext) on; op is the
\* operation on the text around a contained shorttext
computeContained(text1, text2, longtext, shorttext, op, at) ==
  IF at # -1
  THEN <<<<op, substring(longtext, 0, at)>>,
         <<DIFF_EQUAL, shorttext>>,
         <<op, substringFrom(longtext, at + Len(shorttext))>>>>
  ELSE IF Len(shorttext) = 1
  THEN <<<<DIFF_DELETE, text1>>, <<DIFF_INSERT, text2>>>>
  ELSE computeHalfMatch(text1, text2, diff_halfMatch(text1, text2))

diff_compute(text1, text2) ==
  IF text1 = <<>> THEN <<<<DIFF_INSERT, text2>>>>
  ELSE IF text2 = <<>> THEN <<<<DIFF_DELETE, text1>>>>
  ELSE IF Len(text1) > Len(text2)
  THEN computeContained(text1, text2, text1, text2, DIFF_DELETE,
                        indexOf(text1, text2))
  ELSE computeContained(text1, text2, text2, text1, DIFF_INSERT,
                        indexOf(text2, text1))

\* diff_main once the common prefix is cut off text1 and text2 and the
\* length suf of their common suffix is known
mainCompute(commonprefix, text1, text2, suf) ==
  diff_cleanupMerge(
    (IF commonprefix # <<>> THEN <<<<DIFF_EQUAL, commonprefix>>>> ELSE <<>>)
    \o diff_compute(substring(text1, 0, Len(text1) - suf),
                    substring(text2, 0, Len(text2) - suf))
    \o (IF suf > 0
        THEN <<<<DIFF_EQUAL, substringFrom(text1, Len(text1) - suf)>>>>
        ELSE <<>>))

mainTrimmed(commonprefix, text1, text2) ==
  mainCompute(commonprefix, text1, text2, diff_commonSuffix(text1, text2))

mainPrefix(text1, text2, pre) ==
  mainTrimmed(substring(text1, 0, pre), substringFrom(text1, pre),
              substringFrom(text2, pre))

diff_main(text1, text2) ==
  IF text1 = text2
  THEN IF text1 # <<>> THEN <<<<DIFF_EQUAL, text1>>>> ELSE <<>>
  ELSE mainPrefix(text1, text2, diff_commonPrefix(text1, text2))

(***************************************************************************)
(* diff_cleanupSemantic: eliminate the equalities that are no longer than  *)
(* the edits on both of their sides, realign edits to word boundaries      *)
(* (diff_cleanupSemanticLossless), then extract the overlap between a      *)
(* deletion and the insertion that follows it.                             *)
(***************************************************************************)
\* The record st holds the variables of the elimination loop.  equalities
\* is the library's stack of equality positions: its length counter is
\* decremented twice per elimination, also below zero, and JavaScript then
\* stores and finds the positions under negative keys.
eliminateInit(diffs) ==
  [diffs |-> diffs,
   equalities |-> [k \in (-(Len(diffs) + 2))..Len(diffs) |-> -1],
   equalitiesLength |-> 0,
   hasLastEquality |-> FALSE,
   lastEquality |-> <<>>,
   pointer |-> 0,
   length_insertions1 |-> 0, length_deletions1 |-> 0,
   length_insertions2 |-> 0, length_deletions2 |-> 0,
   changes |-> FALSE]

\* "Equality found."
eliminatePush(st) ==
  [st EXCEPT !.equalities[st.equalitiesLength] = st.pointer,
             !.equalitiesLength = @ + 1,
             !.length_insertions1 = st.length_insertions2,
             !.length_deletions1 = st.length_deletions2,
             !.length_insertions2 = 0,
             !.length_deletions2 = 0,
             !.hasLastEquality = TRUE,
             !.lastEquality = st.diffs[st.pointer + 1][2],
             !.pointer = @ + 1]

\* "An insertion or deletion": count its length.
eliminateCount(st) ==
  IF st.diffs[st.pointer + 1][1] = DIFF_INSERT
  THEN [st EXCEPT !.length_insertions2 = @ + Len(st.diffs[st.pointer + 1][2])]
  ELSE [st EXCEPT !.length_deletions2 = @ + Len(st.diffs[st.pointer + 1][2])]

\* "Eliminate an equality that is smaller or equal to the edits on both
\* sides of it."
eliminateSmall(st) ==
  /\ st.hasLastEquality
  /\ st.lastEquality # <<>>
  /\ Len(st.lastEquality) <= Max(st.length_insertions1, st.length_deletions1)
  /\ Len(st.lastEquality) <= Max(st.length_insertions2, st.length_deletions2)

\* Mutation: the equality is turned into an insert without the delete
\* that duplicates it.
eliminateWithoutDelete(st, at, newLength) ==
  [st EXCEPT !.diffs = setOp(st.diffs, at, DIFF_INSERT),
             !.equalitiesLength = newLength,
             !.pointer = (IF newLength > 0 THEN st.equalities[newLength - 1] ELSE -1) + 1,
             !.length_insertions1 = 0,
             !.length_deletions1 = 0,
             !.length_insertions2 = 0,
             !.length_deletions2 = 0,
             !.hasLastEquality = FALSE,
             !.changes = TRUE]

\* Duplicate the equality as a delete and an insert, drop it and the
\* equality before it from the stack, and go back to that one.
eliminateAt(st, at, newLength) ==
  [st EXCEPT !.diffs = setOp(splice(st.diffs, at, 0,
                                    <<<<DIFF_DELETE, st.lastEquality>>>>),
                             at + 1, DIFF_INSERT),
             !.equalitiesLength = newLength,
             !.pointer = (IF newLength > 0 THEN st.equalities[newLength - 1] ELSE -1) + 1,
             !.length_insertions1 = 0,
             !.length_deletions1 = 0,
             !.length_insertions2 = 0,
             !.length_deletions2 = 0,
             !.hasLastEquality = FALSE,
             !.changes = TRUE]

RECURSIVE eliminateLoop(_)
RECURSIVE eliminateEdit(_)

eliminateEdit(st) ==
  IF eliminateSmall(st)
  THEN eliminateLoop(eliminateAt(st, st.equalities[st.equalitiesLength - 1],
                                 st.equalitiesLength - 2))
  ELSE eliminateLoop([st EXCEPT !.pointer = @ + 1])

eliminateLoop(st) ==
  IF st.pointer >= Len(st.diffs)
  THEN st
  ELSE IF st.diffs[st.pointer + 1][1] = DIFF_EQUAL
  THEN eliminateLoop(eliminatePush(st))
  ELSE eliminateEdit(eliminateCount(st))

\* The character classes of diff_cleanupSemanticScore_.
AlphaNumeric ==
  {"a", "b", "c", "d", "e", "f", "g", "h", "i", "j", "k", "l", "m", "n", "o",
   "p", "q", "r", "s", "t", "u", "v", "w", "x", "y", "z",
   "A", "B", "C", "D", "E", "F", "G", "H", "I", "J", "K", "L", "M", "N", "O",
   "P", "Q", "R", "S", "T", "U", "V", "W", "X", "Y", "Z",
   "0", "1", "2", "3", "4", "5", "6", "7", "8", "9"}
RegexWhiteSpace == {" ", "\t", "\n", "\r", "\f"}
LineBreak == {"\r", "\n"}

endsWith(s, t) == Len(s) >= Len(t) /\ SubSeq(s, Len(s) - Len(t) + 1, Len(s)) = t
startsWith(s, t) == Len(s) >= Len(t) /\ SubSeq(s, 1, Len(t)) = t

\* /\n\r?\n$/ on one, /^\r?\n\r?\n/ on two
blanklineEnd(one) == endsWith(one, <<"\n", "\n">>) \/ endsWith(one, <<"\n", "\r", "\n">>)
blanklineStart(two) ==
  \/ startsWith(two, <<"\n", "\n">>)
  \/ startsWith(two, <<"\r", "\n", "\n">>)
  \/ startsWith(two, <<"\n", "\r", "\n">>)
  \/ startsWith(two, <<"\r", "\n", "\r", "\n">>)

\* The score of a boundary by the classes of the characters on its sides.
scoreOfClasses(nonAlphaNumeric1, nonAlphaNumeric2, whitespace1, whitespace2, lineBreak1, lineBreak2, blankLine1, blankLine2) ==
  IF blankLine1 \/ blankLine2 THEN 5
  ELSE IF lineBreak1 \/ lineBreak2 THEN 4
  ELSE IF nonAlphaNumeric1 /\ ~whitespace1 /\ whitespace2 THEN 3
  ELSE IF whitespace1 \/ whitespace2 THEN 2
  ELSE IF nonAlphaNumeric1 \/ nonAlphaNumeric2 THEN 1
  ELSE 0

scoreOfChars(one, two, char1, char2) ==
  scoreOfClasses(
    char1 \notin AlphaNumeric,
    char2 \notin AlphaNumeric,
    char1 \notin AlphaNumeric /\ char1 \in RegexWhiteSpace,
    char2 \notin AlphaNumeric /\ char2 \in RegexWhiteSpace,
    char1 \notin AlphaNumeric /\ char1 \in RegexWhiteSpace /\ char1 \in LineBreak,
    char2 \notin AlphaNumeric /\ char2 \in RegexWhiteSpace /\ char2 \in LineBreak,
    char1 \notin AlphaNumeric /\ char1 \in RegexWhiteSpace /\ char1 \in LineBreak
      /\ blanklineEnd(one),
    char2 \notin AlphaNumeric /\ char2 \in RegexWhiteSpace /\ char2 \in LineBreak
      /\ blanklineStart(two))

diff_cleanupSemanticScore(one, two) ==
  IF one = <<>> \/ two = <<>>
  THEN 6
  ELSE scoreOfChars(one, two, one[Len(one)], two[1])

\* The inner loop of the lossless pass: step the edit right one character
\* at a time and keep the best-scoring position (ties go to the later one).
losslessPosition(equality1, edit, equality2) ==
  [score |-> diff_cleanupSemanticScore(equality1, edit)
               + diff_cleanupSemanticScore(edit, equality2),
   equality1 |-> equality1, edit |-> edit, equality2 |-> equality2]

losslessBetter(position, best) ==
  IF position.score >= best.score THEN position ELSE best

RECURSIVE losslessSlide(_, _, _, _)
losslessSlide(equality1, edit, equality2, best) ==
  IF edit # <<>> /\ equality2 # <<>> /\ edit[1] = equality2[1]
  THEN losslessSlide(Append(equality1, edit[1]),
                     Append(Tail(edit), equality2[1]),
                     Tail(equality2),
                     losslessBetter(
                       losslessPosition(Append(equality1, edit[1]),
                                        Append(Tail(edit), equality2[1]),
                                        Tail(equality2)),
                       best))
  ELSE best

RECURSIVE losslessLoop(_, _)
RECURSIVE losslessSaveEdit(_, _, _)

\* "We have an improvement, save it back to the diff": the edit and the
\* equality after it (the equality before it is saved, at pointer - 1, or
\* dropped); an equality that became empty is dropped.
losslessSaveEdit(diffs, pointer, best) ==
  IF best.equality2 # <<>>
  THEN losslessLoop(setText(setText(diffs, pointer, best.edit),
                            pointer + 1, best.equality2),
                    pointer + 1)
  ELSE losslessLoop(splice(setText(diffs, pointer, best.edit), pointer + 1, 1, <<>>),
                    pointer)

losslessSave(diffs, pointer, best) ==
  IF diffs[pointer][2] = best.equality1
  THEN losslessLoop(diffs, pointer + 1)
  ELSE IF best.equality1 # <<>>
  THEN losslessSaveEdit(setText(diffs, pointer - 1, best.equality1), pointer, best)
  ELSE losslessSaveEdit(splice(diffs, pointer - 1, 1, <<>>), pointer - 1, best)

\* "First, shift the edit as far left as possible", then slide it right.
losslessShifted(diffs, pointer, equality1, edit, equality2) ==
  losslessSave(diffs, pointer,
               losslessSlide(equality1, edit, equality2,
                             losslessPosition(equality1, edit, equality2)))

losslessShift(diffs, pointer, equality1, edit, equality2, commonOffset) ==
  losslessShifted(diffs, pointer,
    substring(equality1, 0, Len(equality1) - commonOffset),
    substringFrom(edit, Len(edit) - commonOffset)
      \o substring(edit, 0, Len(edit) - commonOffset),
    substringFrom(edit, Len(edit) - commonOffset) \o equality2)

losslessLoop(diffs, pointer) ==
  IF pointer >= Len(diffs) - 1
  THEN diffs
  ELSE IF diffs[pointer][1] = DIFF_EQUAL /\ diffs[pointer + 2][1] = DIFF_EQUAL
  THEN losslessShift(diffs, pointer, diffs[pointer][2], diffs[pointer + 1][2],
                     diffs[pointer + 2][2],
                     diff_commonSuffix(diffs[pointer][2], diffs[pointer + 1][2]))
  ELSE losslessLoop(diffs, pointer + 1)

diff_cleanupSemanticLossless(diffs) == losslessLoop(diffs, 1)

\* overlap >= length / 2, without fractions
atLeastHalf(overlap, text) == 2 * overlap >= Len(text)

\* The last pass: "find any overlaps between deletions and insertions".
RECURSIVE overlapLoop(_, _)
RECURSIVE overlapFound(_, _, _, _, _, _)

overlapFound(diffs, pointer, deletion, insertion, overlap_length1, overlap_length2) ==
  IF overlap_length1 >= overlap_length2
  THEN IF atLeastHalf(overlap_length1, deletion) \/ atLeastHalf(overlap_length1, insertion)
       THEN overlapLoop(
              splice(diffs, pointer - 1, 2,
                     <<<<DIFF_DELETE, substring(deletion, 0, Len(deletion) - overlap_length1)>>,
                       <<DIFF_EQUAL, substring(insertion, 0, overlap_length1)>>,
                       <<DIFF_INSERT, substringFrom(insertion, overlap_length1)>>>>),
              pointer + 3)
       ELSE overlapLoop(diffs, pointer + 2)
  ELSE IF atLeastHalf(overlap_length2, deletion) \/ atLeastHalf(overlap_length2, insertion)
       THEN overlapLoop(
              splice(diffs, pointer - 1, 2,
                     <<<<DIFF_INSERT, substring(insertion, 0, Len(insertion) - overlap_length2)>>,
                       <<DIFF_EQUAL, substring(deletion, 0, overlap_length2)>>,
                       <<DIFF_DELETE, substringFrom(deletion, overlap_length2)>>>>),
              pointer + 3)
       ELSE overlapLoop(diffs, pointer + 2)

overlapLoop(diffs, pointer) ==
  IF pointer >= Len(diffs)
  THEN diffs
  ELSE IF diffs[pointer][1] = DIFF_DELETE /\ diffs[pointer + 1][1] = DIFF_INSERT
  THEN overlapFound(diffs, pointer, diffs[pointer][2], diffs[pointer + 1][2],
                    diff_commonOverlap(diffs[pointer][2], diffs[pointer + 1][2]),
                    diff_commonOverlap(diffs[pointer + 1][2], diffs[pointer][2]))
  ELSE overlapLoop(diffs, pointer + 1)

\* if (changes) this.diff_cleanupMerge(diffs), then the two last passes
semanticNormalize(st) ==
  overlapLoop(
    diff_cleanupSemanticLossless(
      IF st.changes THEN diff_cleanupMerge(st.diffs) ELSE st.diffs),
    1)

diff_cleanupSemantic(diffs) == semanticNormalize(eliminateLoop(eliminateInit(diffs)))

(***************************************************************************)
(* calculateSimilarity: the share of the cleaned-up edit script's text     *)
(* that lies in equalities.  The quotient equalLength / totalLength is     *)
(* kept as the fraction num / den; without any text the result is 0.       *)
(***************************************************************************)
RECURSIVE sumLengths(_, _)
sumLengths(diffs, ops) ==
  IF diffs = <<>>
  THEN 0
  ELSE (IF Head(diffs)[1] \in ops THEN Len(Head(diffs)[2]) ELSE 0)
       + sumLengths(Tail(diffs), ops)

\* return totalLength > 0 ? equalLength / totalLength : 0
similarityQuotient(totalLength, equalLength) ==
  IF totalLength > 0
  THEN [num |-> equalLength, den |-> totalLength]
  ELSE [num |-> 0, den |-> 1]

\* Mutation: the equalities are left out of totalLength.
similarityOverEdits(diffs) ==
  similarityQuotient(sumLengths(diffs, {DIFF_DELETE, DIFF_INSERT}),
                     sumLengths(diffs, {DIFF_EQUAL}))

similarityOfDiffs(diffs) ==
  similarityQuotient(sumLengths(diffs, {DIFF_DELETE, DIFF_EQUAL, DIFF_INSERT}),
                     sumLengths(diffs, {DIFF_EQUAL}))

calculateSimilarity(str1, str2) ==
  similarityOfDiffs(diff_cleanupSemantic(diff_main(str1, str2)))

\* similarity > 0.3, the threshold being ThresholdNum / ThresholdDen
ThresholdNum == 3
ThresholdDen == 10
\* Mutation: similarity >= 0.3 in place of similarity > 0.3.
atOrAboveThreshold(similarity) ==
  similarity.num * ThresholdDen >= ThresholdNum * similarity.den

aboveThreshold(similarity) ==
  similarity.num * ThresholdDen > ThresholdNum * similarity.den

(***************************************************************************)
(* computeLineDiff.                                                        *)
(***************************************************************************)
\* Mutation: the lines are compared without trim().
rawEqual(originalLine, modifiedLine) == originalLine = modifiedLine

\* originalLines[i - 1].trim() === modifiedLines[j - 1].trim()
trimEqual(originalLine, modifiedLine) == trim(originalLine) = trim(modifiedLine)

\* Mutation: on a mismatch the cell is copied from dp[i - 1][j] alone.
lcsTableFromAbove(original, modified) ==
  LET table[a \in 0..Len(original), b \in 0..Len(modified)] ==
        IF a = 0 \/ b = 0
        THEN 0
        ELSE IF trim(original[a]) = trim(modified[b])
        THEN table[a - 1, b - 1] + 1
        ELSE table[a - 1, b]
  IN [c \in (0..Len(original)) \X (0..Len(modified)) |-> table[c[1], c[2]]]

\* The LCS table the nested loops fill: row 0 and column 0 keep the 0 of
\* the initial fill, every other cell is taken from its three neighbours.
lcsTable(original, modified) ==
  LET table[a \in 0..Len(original), b \in 0..Len(modified)] ==
        IF a = 0 \/ b = 0
        THEN 0
        ELSE IF trimEqual(original[a], modified[b])
        THEN table[a - 1, b - 1] + 1
        ELSE Max(table[a - 1, b], table[a, b - 1])
  IN [c \in (0..Len(original)) \X (0..Len(modified)) |-> table[c[1], c[2]]]

\* The entries the backtracking pushes, with the fields each branch sets;
\* before each, a mutation of it that a property below must tell apart.
\* Mutation: the indices are stored without the - 1.
equalEntryOffByOne(original, modified, a, b) ==
  [type |-> "equal", originalLine |-> original[a], modifiedLine |-> modified[b],
   originalIndex |-> a, modifiedIndex |-> b]

equalEntry(original, modified, a, b) ==
  [type |-> "equal", originalLine |-> original[a], modifiedLine |-> modified[b],
   originalIndex |-> a - 1, modifiedIndex |-> b - 1]

\* Mutation: the two lines are stored in each other's field.
modifyEntrySwapped(original, modified, a, b) ==
  [type |-> "modify", originalLine |-> modified[b], modifiedLine |-> original[a],
   originalIndex |-> a - 1, modifiedIndex |-> b - 1]

modifyEntry(original, modified, a, b) ==
  [type |-> "modify", originalLine |-> original[a], modifiedLine |-> modified[b],
   originalIndex |-> a - 1, modifiedIndex |-> b - 1]

\* Mutation: a delete entry also carries a modifiedIndex.
deleteEntryWithModifiedIndex(original, a) ==
  [type |-> "delete", originalLine |-> original[a], originalIndex |-> a - 1,
   modifiedIndex |-> a - 1]

deleteEntry(original, a) ==
  [type |-> "delete", originalLine |-> original[a], originalIndex |-> a - 1]

\* Mutation: an insert entry also carries the line as originalLine.
insertEntryWithOriginalLine(modified, b) ==
  [type |-> "insert", originalLine |-> modified[b], modifiedLine |-> modified[b],
   modifiedIndex |-> b - 1]

insertEntry(modified, b) ==
  [type |-> "insert", modifiedLine |-> modified[b], modifiedIndex |-> b - 1]

\* Mutation: result.push(entry) in place of result.unshift(entry).
unshiftAsPush(entries, entry) == entries \o <<entry>>

\* result.unshift(entry)
unshift(entries, entry) == <<entry>> \o entries

\* calculateSimilarity on the lines of the model, tabulated once (the
\* @@ <<>> leaves the function as it is).
similarityTable ==
  [p \in (Lines \cup {<<>>}) \X (Lines \cup {<<>>})
     |-> calculateSimilarity(p[1], p[2])] @@ <<>>

lineSimilarity(originalLine, modifiedLine) ==
  similarityTable[<<originalLine, modifiedLine>>]

\* Mutation: >= in place of >, the delete branch also taken on a tie.
preferDeleteOnTie(table, a, b) == table[<<a - 1, b>>] >= table[<<a, b - 1>>]

\* Mutation: the comparison reversed.
preferDeleteReversed(table, a, b) == table[<<a - 1, b>>] < table[<<a, b - 1>>]

\* dp[i - 1][j] > dp[i][j - 1]
preferDelete(table, a, b) == table[<<a - 1, b>>] > table[<<a, b - 1>>]

\* The if-chain of the backtracking loop at indices (a, b), not both 0: the
\* branch it takes.  "deleteRest" and "insertRest" are the two last
\* branches, taken when one of the documents is used up.
backtrackBranch(original, modified, table, a, b) ==
  IF a > 0 /\ b > 0 /\ trimEqual(original[a], modified[b])
  THEN "equal"
  ELSE IF a > 0 /\ b > 0
  THEN IF aboveThreshold(lineSimilarity(original[a], modified[b]))
       THEN "modify"
       ELSE IF preferDelete(table, a, b) THEN "delete" ELSE "insert"
  ELSE IF a > 0 THEN "deleteRest" ELSE "insertRest"

\* Mutation: while (i > 0 && j > 0).
loopConditionBoth(a, b) == IF a > 0 THEN b > 0 ELSE FALSE

\* while (i > 0 || j > 0): j is looked at when i > 0 fails
loopCondition(a, b) == IF a > 0 THEN TRUE ELSE b > 0

\* The loop is running and its next iteration takes branch.
atBranch(branch) ==
  /\ pc = "backtrack"
  /\ loopCondition(i, j)
  /\ backtrackBranch(originalLines, modifiedLines, dp, i, j) = branch

\* The store is not followed: it stays as it is created, with nothing in
\* localStorage.
NoItem == "null"

\* The item of localStorage that holds the history: removed or never set,
\* or set to the records given to saveHistoryToStorage's setItem.
NoHistoryItem == [stored |-> FALSE]
historyItem(records) == [stored |-> TRUE, records |-> records]

NoComparison == [taken |-> FALSE]

\* A timer of setTimeout: none pending, or one that calls
\* setDebouncedValue(value) when no time remains.
NoTimeout == [pending |-> FALSE]

noHook ==
  /\ inputValue = <<>>
  /\ debouncedValue = <<>>
  /\ handler = NoTimeout
  /\ unchangedFor = 0
  /\ generation = 0
  /\ emitted = 0
  /\ cleared = 0

\* useState(0), and no call of onNavigate yet
noNavigator ==
  /\ currentLine = 0
  /\ navigated = <<>>

\* localStorage takes what it is given, and importHistory was not called
noStorageFault ==
  /\ quotaExceeded = FALSE
  /\ importReturned = "none"

noHome ==
  /\ autoCompare = FALSE
  /\ debouncedOriginalCode = <<>>
  /\ debouncedModifiedCode = <<>>
  /\ handlerOriginal = NoTimeout
  /\ handlerModified = NoTimeout
  /\ originalUnchangedFor = 0
  /\ modifiedUnchangedFor = 0

noStore ==
  /\ originalCode = <<>>
  /\ modifiedCode = <<>>
  /\ diffLines = <<>>
  /\ lineDiffs = <<>>
  /\ history = <<>>
  /\ isComparing = FALSE
  /\ selectedLanguage = "javascript"
  /\ isDarkMode = TRUE
  /\ storedHistory = NoHistoryItem
  /\ storedTheme = NoItem
  /\ now = 0
  /\ firstComparison = NoComparison

\* No call of calculateSimilarity is followed.
noSimilarityCall ==
  /\ simStr1 = <<>>
  /\ simStr2 = <<>>
  /\ simDiffs = <<>>
  /\ simResult = [num |-> 0, den |-> 1]
  /\ simPc = "none"

Init ==
  /\ originalLines \in SeqsUpTo(Lines, MaxOriginalLines)
  /\ modifiedLines \in SeqsUpTo(Lines, MaxModifiedLines)
  /\ dp = [c \in (0..Len(originalLines)) \X (0..Len(modifiedLines)) |-> 0]
  /\ i = 0
  /\ j = 0
  /\ result = <<>>
  /\ pc = "table"
  /\ noSimilarityCall
  /\ noStore
  /\ noHook
  /\ noHome
  /\ noNavigator
  /\ noStorageFault

\* The table-building loops, then the start of the backtracking at (m, n).
BuildTable ==
  /\ pc = "table"
  /\ dp' = lcsTable(originalLines, modifiedLines)
  /\ result' = <<>>
  /\ i' = Len(originalLines)
  /\ j' = Len(modifiedLines)
  /\ pc' = "backtrack"
  /\ UNCHANGED <<originalLines, modifiedLines>>
  /\ UNCHANGED <<similarityVars, storeVars, hookVars, homeVars, navigatorVars, storageVars>>

\* One iteration of the while loop, one action per branch.
StepEqual ==
  /\ atBranch("equal")
  /\ result' = unshift(result, equalEntry(originalLines, modifiedLines, i, j))
  /\ i' = i - 1
  /\ j' = j - 1
  /\ UNCHANGED <<originalLines, modifiedLines, dp, pc>>
  /\ UNCHANGED <<similarityVars, storeVars, hookVars, homeVars, navigatorVars, storageVars>>

StepModify ==
  /\ atBranch("modify")
  /\ result' = unshift(result, modifyEntry(originalLines, modifiedLines, i, j))
  /\ i' = i - 1
  /\ j' = j - 1
  /\ UNCHANGED <<originalLines, modifiedLines, dp, pc>>
  /\ UNCHANGED <<similarityVars, storeVars, hookVars, homeVars, navigatorVars, storageVars>>

StepDelete ==
  /\ atBranch("delete")
  /\ result' = unshift(result, deleteEntry(originalLines, i))
  /\ i' = i - 1
  /\ UNCHANGED <<originalLines, modifiedLines, dp, j, pc>>
  /\ UNCHANGED <<similarityVars, storeVars, hookVars, homeVars, navigatorVars, storageVars>>

StepInsert ==
  /\ atBranch("insert")
  /\ result' = unshift(result, insertEntry(modifiedLines, j))
  /\ j' = j - 1
  /\ UNCHANGED <<originalLines, modifiedLines, dp, i, pc>>
  /\ UNCHANGED <<similarityVars, storeVars, hookVars, homeVars, navigatorVars, storageVars>>

StepDeleteRest ==
  /\ atBranch("deleteRest")
  /\ result' = unshift(result, deleteEntry(originalLines, i))
  /\ i' = i - 1
  /\ UNCHANGED <<originalLines, modifiedLines, dp, j, pc>>
  /\ UNCHANGED <<similarityVars, storeVars, hookVars, homeVars, navigatorVars, storageVars>>

StepInsertRest ==
  /\ atBranch("insertRest")
  /\ result' = unshift(result, insertEntry(modifiedLines, j))
  /\ j' = j - 1
  /\ UNCHANGED <<originalLines, modifiedLines, dp, i, pc>>
  /\ UNCHANGED <<similarityVars, storeVars, hookVars, homeVars, navigatorVars, storageVars>>

\* The loop condition fails: return result.
Return ==
  /\ pc = "backtrack"
  /\ ~loopCondition(i, j)
  /\ pc' = "done"
  /\ UNCHANGED <<originalLines, modifiedLines, dp, i, j, result>>
  /\ UNCHANGED <<similarityVars, storeVars, hookVars, homeVars, navigatorVars, storageVars>>

Next ==
  \/ BuildTable
  \/ StepEqual
  \/ StepModify
  \/ StepDelete
  \/ StepInsert
  \/ StepDeleteRest
  \/ StepInsertRest
  \/ Return

Spec == Init /\ [][Next]_vars

\* The call runs on: a step that can be taken is taken.
SpecTerminating == Init /\ [][Next]_vars /\ WF_vars(Next)

(***************************************************************************)
(* calculateSimilarity, statement by statement, on two strings of at most  *)
(* MaxStringLength characters.                                             *)
(***************************************************************************)
\* No call of computeLineDiff is followed.
noLineDiffCall ==
  /\ originalLines = <<>>
  /\ modifiedLines = <<>>
  /\ dp = [c \in {<<0, 0>>} |-> 0]
  /\ i = 0
  /\ j = 0
  /\ result = <<>>
  /\ pc = "none"

InitSimilarity ==
  /\ simStr1 \in SeqsUpTo(Chars, MaxStringLength)
  /\ simStr2 \in SeqsUpTo(Chars, MaxStringLength)
  /\ simDiffs = <<>>
  /\ simResult = [num |-> 0, den |-> 1]
  /\ simPc = "diff_main"
  /\ noLineDiffCall
  /\ noStore
  /\ noHook
  /\ noHome
  /\ noNavigator
  /\ noStorageFault

\* const diffs = dmp.diff_main(str1, str2)
DiffMain ==
  /\ simPc = "diff_main"
  /\ simDiffs' = diff_main(simStr1, simStr2)
  /\ simPc' = "diff_cleanupSemantic"
  /\ UNCHANGED <<simStr1, simStr2, simResult>>
  /\ UNCHANGED <<lineDiffVars, storeVars, hookVars, homeVars, navigatorVars, storageVars>>

\* dmp.diff_cleanupSemantic(diffs)
CleanupSemantic ==
  /\ simPc = "diff_cleanupSemantic"
  /\ simDiffs' = diff_cleanupSemantic(simDiffs)
  /\ simPc' = "forEach"
  /\ UNCHANGED <<simStr1, simStr2, simResult>>
  /\ UNCHANGED <<lineDiffVars, storeVars, hookVars, homeVars, navigatorVars, storageVars>>

\* The forEach loop over diffs and the return statement.
ReturnSimilarity ==
  /\ simPc = "forEach"
  /\ simResult' = similarityOfDiffs(simDiffs)
  /\ simPc' = "done"
  /\ UNCHANGED <<simStr1, simStr2, simDiffs>>
  /\ UNCHANGED <<lineDiffVars, storeVars, hookVars, homeVars, navigatorVars, storageVars>>

NextSimilarity ==
  \/ DiffMain
  \/ CleanupSemantic
  \/ ReturnSimilarity

SpecSimilarity == InitSimilarity /\ [][NextSimilarity]_vars

(***************************************************************************)
(* computeLineDiff as the function the store calls.                        *)
(***************************************************************************)
RECURSIVE backtrack(_, _, _, _, _, _)
RECURSIVE backtrackStep(_, _, _, _, _, _, _)

\* One iteration of the while loop, on the branch it takes.
backtrackStep(original, modified, table, a, b, entries, branch) ==
  IF branch = "equal"
  THEN backtrack(original, modified, table, a - 1, b - 1,
                 unshift(entries, equalEntry(original, modified, a, b)))
  ELSE IF branch = "modify"
  THEN backtrack(original, modified, table, a - 1, b - 1,
                 unshift(entries, modifyEntry(original, modified, a, b)))
  ELSE IF branch \in {"delete", "deleteRest"}
  THEN backtrack(original, modified, table, a - 1, b,
                 unshift(entries, deleteEntry(original, a)))
  ELSE backtrack(original, modified, table, a, b - 1,
                 unshift(entries, insertEntry(modified, b)))

backtrack(original, modified, table, a, b, entries) ==
  IF loopCondition(a, b)
  THEN backtrackStep(original, modified, table, a, b, entries,
                     backtrackBranch(original, modified, table, a, b))
  ELSE entries

computeLineDiff(original, modified) ==
  backtrack(original, modified, lcsTable(original, modified),
            Len(original), Len(modified), <<>>)

(***************************************************************************)
(* The store (useCodeStore).                                               *)
(***************************************************************************)
\* The documents of the editors: no text, two lines, three lines.
DocumentEmpty == <<>>
DocumentABCLong == LineABC \o <<"\n">> \o LineLong
DocumentLongABCTail == LineLong \o <<"\n">> \o LineABC \o <<"\n">> \o LineTail

Documents == {DocumentEmpty, DocumentABCLong, DocumentLongABCTail}

Languages == {"javascript", "python"}

\* code.split('\n'); line is the line read so far
RECURSIVE splitLines(_, _)
splitLines(code, line) ==
  IF code = <<>>
  THEN <<line>>
  ELSE IF Head(code) = "\n"
  THEN <<line>> \o splitLines(Tail(code), <<>>)
  ELSE splitLines(Tail(code), Append(line, Head(code)))

split(code) == splitLines(code, <<>>)

\* array.slice(0, n)
slice(array, n) == SubSeq(array, 1, Min(Len(array), n))

\* diffResult.forEach: index + 1 of every entry that is not equal
RECURSIVE differingPositions(_, _)
differingPositions(diffResult, index) ==
  IF index >= Len(diffResult)
  THEN <<>>
  ELSE (IF diffResult[index + 1].type # "equal" THEN <<index + 1>> ELSE <<>>)
       \o differingPositions(diffResult, index + 1)

\* [...new Set(array)]: the first occurrence of every value
RECURSIVE withoutDuplicates(_, _)
withoutDuplicates(array, seen) ==
  IF array = <<>>
  THEN <<>>
  ELSE IF Head(array) \in seen
  THEN withoutDuplicates(Tail(array), seen)
  ELSE <<Head(array)>> \o withoutDuplicates(Tail(array), seen \cup {Head(array)})

\* array.sort((a, b) => a - b): a stable sort, by insertion
RECURSIVE insertAscending(_, _)
insertAscending(sorted, x) ==
  IF sorted = <<>> THEN <<x>>
  ELSE IF Head(sorted) - x > 0 THEN <<x>> \o sorted
  ELSE <<Head(sorted)>> \o insertAscending(Tail(sorted), x)

RECURSIVE sortAscending(_, _)
sortAscending(array, sorted) ==
  IF array = <<>>
  THEN sorted
  ELSE sortAscending(Tail(array), insertAscending(sorted, Head(array)))

\* Mutation: the positions are added to those of the previous comparison.
diffLinesMergedWithPrevious(diffResult) ==
  sortAscending(withoutDuplicates(diffLines \o differingPositions(diffResult, 0), {}),
                <<>>)

\* Mutation: index is pushed in place of index + 1.
diffLinesFromZero(diffResult) ==
  [k \in DOMAIN differingPositions(diffResult, 0)
     |-> differingPositions(diffResult, 0)[k] - 1]

\* The diffLines compareCode stores for diffResult.
diffLinesOf(diffResult) ==
  sortAscending(withoutDuplicates(differingPositions(diffResult, 0), {}), <<>>)

\* HistoryRecord; Date.now().toString() is the id
HistoryLimit == 20

\* The clock at the start, later than the timestamps of a full history.
InitialNow == 21

newRecord(time) ==
  [id |-> ToString(time), timestamp |-> time, original |-> originalCode,
   modified |-> modifiedCode, lang |-> selectedLanguage]

\* array.sort((a, b) => b.timestamp - a.timestamp): stable, by insertion
RECURSIVE insertNewestFirst(_, _)
insertNewestFirst(sorted, record) ==
  IF sorted = <<>> THEN <<record>>
  ELSE IF record.timestamp - Head(sorted).timestamp > 0 THEN <<record>> \o sorted
  ELSE <<Head(sorted)>> \o insertNewestFirst(Tail(sorted), record)

RECURSIVE sortNewestFirst(_, _)
sortNewestFirst(array, sorted) ==
  IF array = <<>>
  THEN sorted
  ELSE sortNewestFirst(Tail(array), insertNewestFirst(sorted, Head(array)))

\* saveHistoryToStorage: the value of the item it sets
limitedHistory(records) == slice(records, HistoryLimit)

\* Mutation: the new list is not cut to the limit.
updatedHistoryUncut(records) == <<newRecord(now)>> \o records

\* saveToHistory: [newRecord, ...history].slice(0, 20)
updatedHistory(records) == slice(<<newRecord(now)>> \o records, HistoryLimit)

\* importHistory: the new records, then the old ones, sorted and cut
mergedHistory(importedHistory, records) ==
  slice(
    sortNewestFirst(
      SelectSeq(importedHistory,
                LAMBDA record : record.id \notin {records[k].id : k \in DOMAIN records})
        \o records,
      <<>>),
    HistoryLimit)

\* if (!originalCode.trim() && !modifiedCode.trim()) return
nothingToSave == trim(originalCode) = <<>> /\ trim(modifiedCode) = <<>>

\* The records of history saved at the present value of the clock.
savedNow == Cardinality({k \in DOMAIN history : history[k].timestamp = now})

\* saveHistoryToStorage(records): setItem of the first twenty records; an
\* exception of setItem is caught and logged, and the item stays as it was.
saveHistoryToStorage(records) ==
  storedHistory' = IF quotaExceeded
                   THEN storedHistory
                   ELSE historyItem(limitedHistory(records))

\* What a call of saveToHistory does to history and to localStorage.
saveToHistory ==
  IF nothingToSave
  THEN UNCHANGED <<history, storedHistory>>
  ELSE /\ savedNow < MaxSavesPerMillisecond
       /\ history' = updatedHistory(history)
       /\ saveHistoryToStorage(updatedHistory(history))

\* The store as a compareCode that stores diffResult leaves it.
comparisonDone(diffResult) ==
  [taken |-> TRUE, originalCode |-> originalCode, modifiedCode |-> modifiedCode,
   lineDiffs |-> diffResult, diffLines |-> diffLinesOf(diffResult),
   selectedLanguage |-> selectedLanguage, isDarkMode |-> isDarkMode]

compareCodeWith(diffResult) ==
  /\ diffLines' = diffLinesOf(diffResult)
  /\ lineDiffs' = diffResult
  /\ isComparing' = FALSE
  /\ saveToHistory
  /\ firstComparison' =
       IF firstComparison.taken THEN firstComparison ELSE comparisonDone(diffResult)
  /\ UNCHANGED <<originalCode, modifiedCode, selectedLanguage, isDarkMode,
                 storedTheme, now>>

SetOriginalCode ==
  /\ \E code \in Documents : originalCode' = code
  /\ UNCHANGED <<modifiedCode, diffLines, lineDiffs, history, isComparing,
                 selectedLanguage, isDarkMode, storedHistory, storedTheme, now,
                 firstComparison>>
  /\ UNCHANGED <<lineDiffVars, similarityVars, hookVars, homeVars, navigatorVars, storageVars>>

SetModifiedCode ==
  /\ \E code \in Documents : modifiedCode' = code
  /\ UNCHANGED <<originalCode, diffLines, lineDiffs, history, isComparing,
                 selectedLanguage, isDarkMode, storedHistory, storedTheme, now,
                 firstComparison>>
  /\ UNCHANGED <<lineDiffVars, similarityVars, hookVars, homeVars, navigatorVars, storageVars>>

\* What compareCode computes from the two documents, for every pair of
\* documents of the model (computed once).
lineDiffTable ==
  [pair \in Documents \X Documents |->
     computeLineDiff(split(pair[1]), split(pair[2]))] @@ <<>>

lineDiffOf(original, modified) == lineDiffTable[<<original, modified>>]

\* compareCode, with the saveToHistory it ends with
CompareCode ==
  /\ compareCodeWith(lineDiffOf(originalCode, modifiedCode))
  /\ UNCHANGED <<lineDiffVars, similarityVars, hookVars, homeVars, navigatorVars, storageVars>>

ClearCode ==
  /\ originalCode' = <<>>
  /\ modifiedCode' = <<>>
  /\ diffLines' = <<>>
  /\ lineDiffs' = <<>>
  /\ UNCHANGED <<history, isComparing, selectedLanguage, isDarkMode,
                 storedHistory, storedTheme, now, firstComparison>>
  /\ UNCHANGED <<lineDiffVars, similarityVars, hookVars, homeVars, navigatorVars, storageVars>>

SaveToHistory ==
  /\ saveToHistory
  /\ UNCHANGED <<originalCode, modifiedCode, diffLines, lineDiffs, isComparing,
                 selectedLanguage, isDarkMode, storedTheme, now, firstComparison>>
  /\ UNCHANGED <<lineDiffVars, similarityVars, hookVars, homeVars, navigatorVars, storageVars>>

\* loadFromHistory, called with a record of the history panel
LoadFromHistory ==
  /\ \E k \in DOMAIN history :
       /\ originalCode' = history[k].original
       /\ modifiedCode' = history[k].modified
       /\ selectedLanguage' = history[k].lang
  /\ diffLines' = <<>>
  /\ lineDiffs' = <<>>
  /\ UNCHANGED <<history, isComparing, isDarkMode, storedHistory, storedTheme,
                 now, firstComparison>>
  /\ UNCHANGED <<lineDiffVars, similarityVars, hookVars, homeVars, navigatorVars, storageVars>>

ClearHistory ==
  /\ history' = <<>>
  /\ storedHistory' = NoHistoryItem
  /\ UNCHANGED <<originalCode, modifiedCode, diffLines, lineDiffs, isComparing,
                 selectedLanguage, isDarkMode, storedTheme, now, firstComparison>>
  /\ UNCHANGED <<lineDiffVars, similarityVars, hookVars, homeVars, navigatorVars, storageVars>>

SetLanguage ==
  /\ \E lang \in Languages : selectedLanguage' = lang
  /\ UNCHANGED <<originalCode, modifiedCode, diffLines, lineDiffs, history,
                 isComparing, isDarkMode, storedHistory, storedTheme, now,
                 firstComparison>>
  /\ UNCHANGED <<lineDiffVars, similarityVars, hookVars, homeVars, navigatorVars, storageVars>>

ToggleTheme ==
  /\ isDarkMode' = ~isDarkMode
  /\ storedTheme' = IF ~isDarkMode THEN "dark" ELSE "light"
  /\ UNCHANGED <<originalCode, modifiedCode, diffLines, lineDiffs, history,
                 isComparing, selectedLanguage, storedHistory, now,
                 firstComparison>>
  /\ UNCHANGED <<lineDiffVars, similarityVars, hookVars, homeVars, navigatorVars, storageVars>>

\* The editor's character diffs (CodeEditor's lineDiffs): line number k of
\* a document, or the empty line where the document has no such line.
editorLine(codeLines, k) == IF k <= Len(codeLines) THEN codeLines[k] ELSE <<>>

\* The line numbers for which an editor showing value beside otherCode
\* computes a character diff.
editorDiffIndexes(value, otherCode) ==
  IF otherCode = <<>> \/ value = <<>>
  THEN {}
  ELSE {k \in 1..Max(Len(split(value)), Len(split(otherCode))) :
          editorLine(split(value), k) # editorLine(split(otherCode), k)}

\* The pairs of lines the editor diffs.
editorDiffPairs(value, otherCode) ==
  {<<editorLine(split(value), k), editorLine(split(otherCode), k)>> :
     k \in editorDiffIndexes(value, otherCode)}

\* The character diff the editor keeps for a line that differs from the
\* line of the other document: diff_main(currentLine, otherLine), cleaned up
\* (ownLine is the currentLine of the loop).
editorLineDiff(ownLine, otherLine) ==
  diff_cleanupSemantic(diff_main(ownLine, otherLine))

\* The character diffs of all pairs of lines an editor can meet.
editorLineDiffTable ==
  [pair \in (Lines \cup {<<>>}) \X (Lines \cup {<<>>}) |->
     editorLineDiff(pair[1], pair[2])] @@ <<>>

\* renderLineWithDiff: the class name given to a segment of type type
className(type, isLeft) ==
  IF type = DIFF_INSERT THEN (IF isLeft THEN "" ELSE "diff-insert")
  ELSE IF type = DIFF_DELETE THEN (IF isLeft THEN "diff-delete" ELSE "")
  ELSE ""

\* renderLineWithDiff: one span for every segment of the line's diff, with
\* the segment's type kept beside what is rendered.
renderLineWithDiff(diff, isLeft) ==
  [k \in DOMAIN diff |->
     [className |-> className(diff[k][1], isLeft),
      text |-> diff[k][2],
      type |-> diff[k][1]]]

\* The lines of the document an editor shows, and the spans it renders for
\* line number k, which has a character diff.
editorSpans(value, otherCode, isLeft, k) ==
  renderLineWithDiff(
    editorLineDiffTable[<<editorLine(split(value), k),
                          editorLine(split(otherCode), k)>>],
    isLeft)

\* The store as it is created on a first visit: nothing in localStorage,
\* the theme taken from the system's preference.
initialState ==
  /\ originalCode = <<>>
  /\ modifiedCode = <<>>
  /\ diffLines = <<>>
  /\ lineDiffs = <<>>
  /\ history = <<>>
  /\ isComparing = FALSE
  /\ selectedLanguage = "javascript"
  /\ isDarkMode \in BOOLEAN
  /\ storedHistory = NoHistoryItem
  /\ storedTheme = NoItem
  /\ now = InitialNow
  /\ firstComparison = NoComparison

InitStore ==
  /\ initialState
  /\ noLineDiffCall
  /\ noSimilarityCall
  /\ noHook
  /\ noHome
  /\ noNavigator
  /\ noStorageFault

NextStore ==
  \/ SetOriginalCode
  \/ SetModifiedCode
  \/ CompareCode
  \/ ClearCode
  \/ LoadFromHistory
  \/ ClearHistory
  \/ SetLanguage
  \/ ToggleTheme

SpecStore == InitStore /\ [][NextStore]_vars

(***************************************************************************)
(* The history of the store: compareCode, saveToHistory, importHistory,    *)
(* loadFromHistory and clearHistory, from a history loaded from            *)
(* localStorage.                                                           *)
(***************************************************************************)
\* The k-th record, from the newest, of a history the store has saved.
storedRecord(k) ==
  [id |-> ToString(InitialNow - k), timestamp |-> InitialNow - k,
   original |-> DocumentABCLong, modified |-> DocumentLongABCTail, lang |-> "python"]

\* The lengths of the history loaded when the store is created.
InitialHistoryLengths == {0, 1, HistoryLimit - 1, HistoryLimit}

\* Records of another export: one whose id is that of the newest stored
\* record, one saved later than any record of this store, an older one,
\* and one saved earlier than any.
importedSameId == [storedRecord(1) EXCEPT !.original = DocumentLongABCTail]
importedNewest ==
  [id |-> "99", timestamp |-> 99, original |-> DocumentLongABCTail,
   modified |-> DocumentEmpty, lang |-> "javascript"]
importedOlder == [importedNewest EXCEPT !.id = "98", !.timestamp = 98]
importedOldest == [importedNewest EXCEPT !.id = "0", !.timestamp = 0]
\* A record of the same export with the id of another of its records.
importedTwin == [importedOlder EXCEPT !.id = importedNewest.id]

\* What JSON.parse makes of the data given to importHistory: it throws,
\* or returns a value that is no array, or an array with a null in it, or
\* an array of records.
ImportedData ==
  {[parsed |-> "SyntaxError"],
   [parsed |-> "object"],
   [parsed |-> "arrayWithNull"],
   [parsed |-> "array", records |-> <<>>],
   [parsed |-> "array", records |-> <<importedSameId, importedOldest>>],
   [parsed |-> "array", records |-> <<importedOlder, importedNewest>>],
   [parsed |-> "array", records |-> <<importedNewest, importedTwin>>]}

\* The try block of importHistory(data) runs to its return true
importSucceeds(data) == data.parsed = "array"

\* importHistory(data): the try block sets the merged history, hands it to
\* saveHistoryToStorage and returns true; on the SyntaxError of JSON.parse,
\* on 'Invalid data format' and on the TypeError of reading the id of null
\* the catch block returns false and the store is left as it is.
importHistory(data) ==
  /\ UNCHANGED <<originalCode, modifiedCode, diffLines, lineDiffs, isComparing,
                 selectedLanguage, isDarkMode, storedTheme, now, firstComparison>>
  /\ UNCHANGED <<lineDiffVars, similarityVars, hookVars, homeVars, navigatorVars>>
  /\ UNCHANGED quotaExceeded
  /\ IF importSucceeds(data)
     THEN /\ importReturned' = "true"
          /\ history' = mergedHistory(data.records, history)
          /\ saveHistoryToStorage(mergedHistory(data.records, history))
     ELSE /\ importReturned' = "false"
          /\ UNCHANGED <<history, storedHistory>>

\* A call of importHistory with some data
ImportHistory == \E data \in ImportedData : importHistory(data)

\* A millisecond passes.
Tick ==
  /\ now < InitialNow + MaxTicks
  /\ now' = now + 1
  /\ UNCHANGED <<originalCode, modifiedCode, diffLines, lineDiffs, history,
                 isComparing, selectedLanguage, isDarkMode, storedHistory,
                 storedTheme, firstComparison>>
  /\ UNCHANGED <<lineDiffVars, similarityVars, hookVars, homeVars, navigatorVars, storageVars>>

\* The store as it is created over a saved history, with documents in the
\* editors.
InitHistory ==
  /\ originalCode \in Documents
  /\ modifiedCode \in Documents
  /\ diffLines = <<>>
  /\ lineDiffs = <<>>
  /\ \E n \in InitialHistoryLengths : history = [k \in 1..n |-> storedRecord(k)]
  /\ isComparing = FALSE
  /\ selectedLanguage = "javascript"
  /\ isDarkMode = TRUE
  /\ storedHistory = IF history = <<>> THEN NoHistoryItem ELSE historyItem(history)
  /\ storedTheme = NoItem
  /\ now = InitialNow
  /\ firstComparison = NoComparison
  /\ noLineDiffCall
  /\ noSimilarityCall
  /\ noHook
  /\ noHome
  /\ noNavigator
  /\ noStorageFault

NextHistory ==
  \/ CompareCode
  \/ SaveToHistory
  \/ ImportHistory
  \/ LoadFromHistory
  \/ ClearHistory
  \/ Tick

SpecHistory == InitHistory /\ [][NextHistory]_vars

\* importHistory beside the other writers of the persisted history, in a
\* browser whose localStorage may refuse setItem.
InitialImportLengths == {0, 1, HistoryLimit}

InitImport ==
  /\ originalCode = DocumentABCLong
  /\ modifiedCode = DocumentEmpty
  /\ diffLines = <<>>
  /\ lineDiffs = <<>>
  /\ \E n \in InitialImportLengths : history = [k \in 1..n |-> storedRecord(k)]
  /\ isComparing = FALSE
  /\ selectedLanguage = "javascript"
  /\ isDarkMode = TRUE
  /\ storedHistory = IF history = <<>> THEN NoHistoryItem ELSE historyItem(history)
  /\ storedTheme = NoItem
  /\ now = InitialNow
  /\ firstComparison = NoComparison
  /\ noLineDiffCall
  /\ noSimilarityCall
  /\ noHook
  /\ noHome
  /\ noNavigator
  /\ quotaExceeded \in BOOLEAN
  /\ importReturned = "none"

NextImport ==
  \/ SaveToHistory
  \/ ImportHistory
  \/ ClearHistory
  \/ Tick

SpecImport == InitImport /\ [][NextImport]_vars

(***************************************************************************)
(* useDebounce(value, delay), rendered by a component whose value changes. *)
(* Time is counted in ticks; the delay is DebounceDelay ticks.             *)
(***************************************************************************)
\* setTimeout(() => setDebouncedValue(value), delay), set by the effect that
\* runs for change number change of the value
setTimeout(value, delay, change) ==
  [pending |-> TRUE, value |-> value, remaining |-> delay, change |-> change]

\* Mutation: the effect of a changed value leaves a pending timer in place.
effectKeepsPending(timer, value, delay, change) ==
  IF timer.pending THEN timer ELSE setTimeout(value, delay, change)

\* The effect on [value, delay]: its cleanup clears the timer of the value
\* before, and it sets a timer for the new value.
effect(timer, value, delay, change) == setTimeout(value, delay, change)

\* A timer after a tick.
afterTick(timer) ==
  IF timer.pending /\ timer.remaining > 0
  THEN [timer EXCEPT !.remaining = @ - 1]
  ELSE timer

\* The timer's callback may run.
due(timer) == timer.pending /\ timer.remaining = 0

\* The component renders with another value: the effect runs again.
ChangeValue ==
  /\ generation < MaxChanges
  /\ \E value \in Documents \ {inputValue} : inputValue' = value
  /\ generation' = generation + 1
  /\ handler' = effect(handler, inputValue', DebounceDelay, generation')
  /\ cleared' = IF handler.pending THEN cleared + 1 ELSE cleared
  /\ unchangedFor' = 0
  /\ UNCHANGED <<debouncedValue, emitted>>
  /\ UNCHANGED <<lineDiffVars, similarityVars, storeVars, homeVars, navigatorVars, storageVars>>

\* A tick passes.  A timer that is due may still be waiting for its callback
\* to be run.
Elapse ==
  /\ handler' = afterTick(handler)
  /\ unchangedFor' = Min(unchangedFor + 1, DebounceDelay)
  /\ UNCHANGED <<inputValue, debouncedValue, generation, emitted, cleared>>
  /\ UNCHANGED <<lineDiffVars, similarityVars, storeVars, homeVars, navigatorVars, storageVars>>

\* The timer's callback: setDebouncedValue(value)
Timeout ==
  /\ due(handler)
  /\ debouncedValue' = handler.value
  /\ emitted' = handler.change
  /\ handler' = NoTimeout
  /\ UNCHANGED <<inputValue, unchangedFor, generation, cleared>>
  /\ UNCHANGED <<lineDiffVars, similarityVars, storeVars, homeVars, navigatorVars, storageVars>>

\* The component mounts with a value: useState(value), and the effect sets
\* the first timer.
InitDebounce ==
  /\ inputValue \in Documents
  /\ debouncedValue = inputValue
  /\ handler = setTimeout(inputValue, DebounceDelay, 0)
  /\ unchangedFor = 0
  /\ generation = 0
  /\ emitted = 0
  /\ cleared = 0
  /\ noLineDiffCall
  /\ noSimilarityCall
  /\ noStore
  /\ noHome
  /\ noNavigator
  /\ noStorageFault

NextDebounce ==
  \/ ChangeValue
  \/ Elapse
  \/ Timeout

\* Time passes, and the event loop runs the callback of a timer that is due.
SpecDebounceFair ==
  InitDebounce /\ [][NextDebounce]_vars /\ WF_vars(Elapse) /\ WF_vars(Timeout)

(***************************************************************************)
(* Home: the two editors, the two debounced documents and the effect that  *)
(* compares automatically.  Date.now() is counted in the timers' ticks.    *)
(***************************************************************************)
\* The documents typed into the left and into the right editor.
LeftDocuments == {DocumentEmpty, DocumentABCLong}
RightDocuments == {DocumentEmpty, DocumentLongABCTail}

\* The effect on [debouncedOriginalCode, debouncedModifiedCode, autoCompare,
\* compareCode] runs in this step and its condition holds.
effectCompares ==
  /\ <<debouncedOriginalCode', debouncedModifiedCode', autoCompare'>>
       # <<debouncedOriginalCode, debouncedModifiedCode, autoCompare>>
  /\ autoCompare'
  /\ (debouncedOriginalCode' # <<>> \/ debouncedModifiedCode' # <<>>)

\* What the effect does to the store in this step.
autoCompareEffect ==
  IF effectCompares
  THEN compareCodeWith(lineDiffOf(originalCode, modifiedCode))
  ELSE UNCHANGED storeVars

\* The left editor's onChange: setOriginalCode(code), and the render that
\* gives the new document to useDebounce.
ChangeOriginalCode ==
  /\ \E code \in LeftDocuments \ {originalCode} : originalCode' = code
  /\ handlerOriginal' = effect(handlerOriginal, originalCode', DebounceDelay, 0)
  /\ originalUnchangedFor' = 0
  /\ UNCHANGED <<modifiedCode, diffLines, lineDiffs, history, isComparing,
                 selectedLanguage, isDarkMode, storedHistory, storedTheme, now,
                 firstComparison>>
  /\ UNCHANGED <<autoCompare, debouncedOriginalCode, debouncedModifiedCode,
                 handlerModified, modifiedUnchangedFor>>
  /\ UNCHANGED <<lineDiffVars, similarityVars, hookVars, navigatorVars, storageVars>>

\* The right editor's onChange
ChangeModifiedCode ==
  /\ \E code \in RightDocuments \ {modifiedCode} : modifiedCode' = code
  /\ handlerModified' = effect(handlerModified, modifiedCode', DebounceDelay, 0)
  /\ modifiedUnchangedFor' = 0
  /\ UNCHANGED <<originalCode, diffLines, lineDiffs, history, isComparing,
                 selectedLanguage, isDarkMode, storedHistory, storedTheme, now,
                 firstComparison>>
  /\ UNCHANGED <<autoCompare, debouncedOriginalCode, debouncedModifiedCode,
                 handlerOriginal, originalUnchangedFor>>
  /\ UNCHANGED <<lineDiffVars, similarityVars, hookVars, navigatorVars, storageVars>>

\* A tick passes for both timers and for Date.now().
HomeElapse ==
  /\ now < InitialNow + MaxElapsed
  /\ now' = now + 1
  /\ handlerOriginal' = afterTick(handlerOriginal)
  /\ handlerModified' = afterTick(handlerModified)
  /\ originalUnchangedFor' = Min(originalUnchangedFor + 1, DebounceDelay)
  /\ modifiedUnchangedFor' = Min(modifiedUnchangedFor + 1, DebounceDelay)
  /\ UNCHANGED <<originalCode, modifiedCode, diffLines, lineDiffs, history,
                 isComparing, selectedLanguage, isDarkMode, storedHistory,
                 storedTheme, firstComparison>>
  /\ UNCHANGED <<autoCompare, debouncedOriginalCode, debouncedModifiedCode>>
  /\ UNCHANGED <<lineDiffVars, similarityVars, hookVars, navigatorVars, storageVars>>

\* The callback of the first hook's timer, the render it causes and the
\* effects of that render.
TimeoutOriginal ==
  /\ due(handlerOriginal)
  /\ debouncedOriginalCode' = handlerOriginal.value
  /\ handlerOriginal' = NoTimeout
  /\ UNCHANGED <<autoCompare, debouncedModifiedCode, handlerModified,
                 originalUnchangedFor, modifiedUnchangedFor>>
  /\ autoCompareEffect
  /\ UNCHANGED <<lineDiffVars, similarityVars, hookVars, navigatorVars, storageVars>>

\* The callback of the second hook's timer
TimeoutModified ==
  /\ due(handlerModified)
  /\ debouncedModifiedCode' = handlerModified.value
  /\ handlerModified' = NoTimeout
  /\ UNCHANGED <<autoCompare, debouncedOriginalCode, handlerOriginal,
                 originalUnchangedFor, modifiedUnchangedFor>>
  /\ autoCompareEffect
  /\ UNCHANGED <<lineDiffVars, similarityVars, hookVars, navigatorVars, storageVars>>

\* The checkbox: setAutoCompare(e.target.checked)
SetAutoCompare ==
  /\ autoCompare' = ~autoCompare
  /\ UNCHANGED <<debouncedOriginalCode, debouncedModifiedCode, handlerOriginal,
                 handlerModified, originalUnchangedFor, modifiedUnchangedFor>>
  /\ autoCompareEffect
  /\ UNCHANGED <<lineDiffVars, similarityVars, hookVars, navigatorVars, storageVars>>

\* The compare button, rendered while autoCompare is off
ClickCompare ==
  /\ ~autoCompare
  /\ CompareCode

\* Home as it mounts over the new store: autoCompare on, both hooks with
\* the empty document and their first timers.
InitHome ==
  /\ initialState
  /\ noLineDiffCall
  /\ noSimilarityCall
  /\ noHook
  /\ noNavigator
  /\ noStorageFault
  /\ autoCompare = TRUE
  /\ debouncedOriginalCode = originalCode
  /\ debouncedModifiedCode = modifiedCode
  /\ handlerOriginal = setTimeout(originalCode, DebounceDelay, 0)
  /\ handlerModified = setTimeout(modifiedCode, DebounceDelay, 0)
  /\ originalUnchangedFor = 0
  /\ modifiedUnchangedFor = 0

NextHome ==
  \/ ChangeOriginalCode
  \/ ChangeModifiedCode
  \/ HomeElapse
  \/ TimeoutOriginal
  \/ TimeoutModified
  \/ SetAutoCompare
  \/ ClickCompare

SpecHome == InitHome /\ [][NextHome]_vars

(***************************************************************************)
(* DiffNavigator, rendered by Home with the store's diffLines and Home's   *)
(* currentLine.  Indexes are those of the code, from 0.                    *)
(***************************************************************************)
\* diffLines.findIndex(line => line >= currentLine)
currentDiffIndex ==
  least({k \in 0..(Len(diffLines) - 1) : diffLines[k + 1] >= currentLine})

hasPrevious == currentDiffIndex > 0

hasNext == currentDiffIndex < Len(diffLines) - 1 /\ currentDiffIndex # -1

\* Home's navigateToLine, called as onNavigate by the button pressed
navigateToLine(button, lineNumber) ==
  /\ Len(navigated) < MaxNavigations
  /\ currentLine' = lineNumber
  /\ navigated' =
       Append(navigated,
              [button |-> button, lineNumber |-> lineNumber, diffLines |-> diffLines])
  /\ UNCHANGED <<lineDiffVars, similarityVars, storeVars, hookVars, homeVars, storageVars>>

\* goToPrevious; the button is disabled unless hasPrevious
GoToPrevious ==
  /\ hasPrevious
  /\ navigateToLine("previous", diffLines[(currentDiffIndex - 1) + 1])

\* goToNext; the button is disabled when there is a current index and no
\* next one
GoToNext ==
  /\ IF hasNext THEN TRUE ELSE currentDiffIndex = -1 /\ Len(diffLines) > 0
  /\ navigateToLine("next",
                    IF hasNext THEN diffLines[(currentDiffIndex + 1) + 1]
                    ELSE diffLines[0 + 1])

\* Home over the new store, before any navigation.
InitNavigator ==
  /\ initialState
  /\ noLineDiffCall
  /\ noSimilarityCall
  /\ noHook
  /\ noHome
  /\ noNavigator
  /\ noStorageFault

NextNavigator ==
  \/ SetOriginalCode
  \/ SetModifiedCode
  \/ CompareCode
  \/ GoToPrevious
  \/ GoToNext

SpecNavigator == InitNavigator /\ [][NextNavigator]_vars

(***************************************************************************)
(* Properties of computeLineDiff's output.                                 *)
(***************************************************************************)
hasOriginalIndex(entry) == "originalIndex" \in DOMAIN entry
hasModifiedIndex(entry) == "modifiedIndex" \in DOMAIN entry
hasOriginalLine(entry) == "originalLine" \in DOMAIN entry
hasModifiedLine(entry) == "modifiedLine" \in DOMAIN entry

entryTypes(entries) == {entries[k].type : k \in DOMAIN entries}

\* C1: the returned entries reconstruct both documents: the entries that
\* carry an originalIndex hold, in output order, original[0..m-1], each
\* with originalLine = original[originalIndex]; the entries that carry a
\* modifiedIndex hold, in output order, modified[0..n-1].
C1_Reconstruction ==
  pc = "done" =>
    LET os == SelectSeq(result, hasOriginalIndex)
        ms == SelectSeq(result, hasModifiedIndex)
    IN /\ Len(os) = Len(originalLines)
       /\ \A k \in DOMAIN os :
            /\ os[k].originalLine = originalLines[k]
            /\ os[k].originalLine = originalLines[os[k].originalIndex + 1]
       /\ Len(ms) = Len(modifiedLines)
       /\ \A k \in DOMAIN ms :
            /\ ms[k].modifiedLine = modifiedLines[k]
            /\ ms[k].modifiedLine = modifiedLines[ms[k].modifiedIndex + 1]

\* A finished alignment of two documents of several lines that holds an
\* equal, a modify and an unpaired entry.
C1_Witness ==
  /\ pc = "done"
  /\ Len(originalLines) >= 2
  /\ Len(modifiedLines) >= 2
  /\ {"equal", "modify"} \subseteq entryTypes(result)
  /\ entryTypes(result) \cap {"insert", "delete"} # {}

\* C2: line-count conservation: as many entries define originalLine as the
\* original has lines, and as many define modifiedLine as the modified has.
C2_LineCountConservation ==
  pc = "done" =>
    /\ Cardinality({k \in DOMAIN result : hasOriginalLine(result[k])})
         = Len(originalLines)
    /\ Cardinality({k \in DOMAIN result : hasModifiedLine(result[k])})
         = Len(modifiedLines)

\* A finished alignment of documents of different lengths with more
\* entries than either document has lines.
C2_Witness ==
  /\ pc = "done"
  /\ originalLines # <<>>
  /\ modifiedLines # <<>>
  /\ Len(originalLines) # Len(modifiedLines)
  /\ Len(result) > Max(Len(originalLines), Len(modifiedLines))

\* C3: along the entries, the originalIndex values that are defined
\* increase strictly, and so do the modifiedIndex values.
C3_MonotonicIndices ==
  \A k, l \in DOMAIN result :
    k < l =>
      /\ (hasOriginalIndex(result[k]) /\ hasOriginalIndex(result[l])
            => result[k].originalIndex < result[l].originalIndex)
      /\ (hasModifiedIndex(result[k]) /\ hasModifiedIndex(result[l])
            => result[k].modifiedIndex < result[l].modifiedIndex)

\* A finished alignment in which deletes and inserts are interleaved with
\* paired entries.
C3_Witness ==
  /\ pc = "done"
  /\ Len(result) >= 4
  /\ {"insert", "delete"} \subseteq entryTypes(result)
  /\ entryTypes(result) \cap {"equal", "modify"} # {}

\* C4: every entry has the fields of its kind and no others.
C4_EntryFields ==
  \A k \in DOMAIN result :
    LET entry == result[k]
    IN /\ entry.type \in {"equal", "modify", "insert", "delete"}
       /\ entry.type \in {"equal", "modify"} =>
            DOMAIN entry = {"type", "originalLine", "modifiedLine",
                            "originalIndex", "modifiedIndex"}
       /\ entry.type = "insert" =>
            DOMAIN entry = {"type", "modifiedLine", "modifiedIndex"}
       /\ entry.type = "delete" =>
            DOMAIN entry = {"type", "originalLine", "originalIndex"}

\* A finished alignment that holds entries of all four kinds.
C4_Witness ==
  /\ pc = "done"
  /\ entryTypes(result) = {"equal", "modify", "insert", "delete"}

\* C5: aligning a document with itself gives one equal entry per line, the
\* k-th with both indices k and both lines X[k].
C5_Identity ==
  pc = "done" /\ originalLines = modifiedLines =>
    /\ Len(result) = Len(originalLines)
    /\ \A k \in DOMAIN result :
         /\ result[k].type = "equal"
         /\ result[k].originalIndex = k - 1
         /\ result[k].modifiedIndex = k - 1
         /\ result[k].originalLine = originalLines[k]
         /\ result[k].modifiedLine = originalLines[k]

\* A document of several different lines has been aligned with itself.
C5_Witness ==
  /\ pc = "done"
  /\ originalLines = modifiedLines
  /\ Len(result) >= 2
  /\ Cardinality({originalLines[k] : k \in DOMAIN originalLines}) >= 2

(***************************************************************************)
(* Properties of the backtracking's branches.                              *)
(***************************************************************************)
\* The loop is at two lines, both indices positive, that differ after
\* trimming.
differentCandidates ==
  /\ pc = "backtrack"
  /\ i > 0
  /\ j > 0
  /\ trim(originalLines[i]) # trim(modifiedLines[j])

\* The similarity of the two candidate lines is more than 0.3 = 3 / 10.
candidatesSimilar ==
  lineSimilarity(originalLines[i], modifiedLines[j]).num * 10
    > 3 * lineSimilarity(originalLines[i], modifiedLines[j]).den

\* dp[i-1][j] = dp[i][j-1] at the loop's indices
tableTie == dp[<<i - 1, j>>] = dp[<<i, j - 1>>]

\* C6: at two candidate lines that are not trimmed-equal, the step puts a
\* modify entry pairing the two lines in front of the result and
\* decrements both indices if and only if their similarity is strictly
\* more than 0.3, whatever the table holds; at 0.3 or less the entry the
\* step puts in front is no modify entry.
C6_ModifyIffAboveThreshold ==
  [][differentCandidates =>
       /\ candidatesSimilar <=>
            /\ result' = <<[type |-> "modify",
                            originalLine |-> originalLines[i],
                            modifiedLine |-> modifiedLines[j],
                            originalIndex |-> i - 1,
                            modifiedIndex |-> j - 1]>> \o result
            /\ i' = i - 1
            /\ j' = j - 1
       /\ ~candidatesSimilar => Head(result').type # "modify"]_vars

\* A modify entry has just been put in front although the table would
\* have sent the step upwards: dp[i-1][j] > dp[i][j-1] at the indices of
\* the step, which are now i + 1 and j + 1.
C6_Witness ==
  /\ pc = "backtrack"
  /\ result # <<>>
  /\ Head(result).type = "modify"
  /\ Head(result).originalIndex = i
  /\ Head(result).modifiedIndex = j
  /\ dp[<<i, j + 1>>] > dp[<<i + 1, j>>]

\* C7 as stated: at two candidate lines that are not trimmed-equal and
\* not similar above the threshold, with dp[i-1][j] = dp[i][j-1], the
\* step is a delete: the original index is decremented.
C7_TieFavorsDelete ==
  [][differentCandidates /\ ~candidatesSimilar /\ tableTie =>
       /\ Head(result').type = "delete"
       /\ i' = i - 1
       /\ j' = j]_vars

\* C7, amended: on such a tie the step is an insert: the modified index
\* is decremented and the original index is kept.
C7_TieTakesInsert ==
  [][differentCandidates /\ ~candidatesSimilar /\ tableTie =>
       /\ Head(result').type = "insert"
       /\ Head(result').modifiedLine = modifiedLines[j]
       /\ i' = i
       /\ j' = j - 1]_vars

\* An insert entry has just been put in front by a step at positive
\* indices (now i and j + 1) where the table had a tie.
C7_Witness ==
  /\ pc = "backtrack"
  /\ i > 0
  /\ result # <<>>
  /\ Head(result).type = "insert"
  /\ Head(result).modifiedIndex = j
  /\ dp[<<i - 1, j + 1>>] = dp[<<i, j>>]

\* The documents [a, b, c] and [a, x, c] with similarity(b, x) = 0.
replacedLine ==
  /\ Len(originalLines) = 3
  /\ Len(modifiedLines) = 3
  /\ originalLines[1] = modifiedLines[1]
  /\ originalLines[3] = modifiedLines[3]
  /\ lineSimilarity(originalLines[2], modifiedLines[2]).num = 0

\* Equal(a), Delete(b), Insert(x), Equal(c)
replacedLineResult ==
  result = <<[type |-> "equal", originalLine |-> originalLines[1],
              modifiedLine |-> modifiedLines[1],
              originalIndex |-> 0, modifiedIndex |-> 0],
             [type |-> "delete", originalLine |-> originalLines[2],
              originalIndex |-> 1],
             [type |-> "insert", modifiedLine |-> modifiedLines[2],
              modifiedIndex |-> 1],
             [type |-> "equal", originalLine |-> originalLines[3],
              modifiedLine |-> modifiedLines[3],
              originalIndex |-> 2, modifiedIndex |-> 2]>>

\* C8 as stated: [a, b, c] against [a, x, c] with similarity(b, x) = 0
\* gives Equal(a), Delete(b), Insert(x), Equal(c).
C8_ReplacedLine == pc = "done" /\ replacedLine => replacedLineResult

\* b and x differ after trimming, and so do b and a, which are no more
\* similar than 0.3: after the insert of x the loop compares b with a.
replacedLineUnlikeFirst ==
  /\ trim(originalLines[2]) # trim(modifiedLines[2])
  /\ trim(originalLines[2]) # trim(modifiedLines[1])
  /\ lineSimilarity(originalLines[2], modifiedLines[1]).num * 10
       <= 3 * lineSimilarity(originalLines[2], modifiedLines[1]).den

\* C8, amended: the same, provided b is neither trimmed-equal to x or to a
\* nor similar to a above 0.3.
C8_ReplacedLineUnlikeFirst ==
  pc = "done" /\ replacedLine /\ replacedLineUnlikeFirst => replacedLineResult

\* Such documents have been aligned; the delete precedes the insert.
C8_Witness ==
  /\ pc = "done"
  /\ replacedLine
  /\ replacedLineUnlikeFirst
  /\ Len(result) = 4
  /\ result[2].type = "delete"
  /\ result[3].type = "insert"

\* Blank characters a line can start or end with.
Blank == {" ", "\t", "\r"}

\* s and t are different, and the same text inside leading and trailing
\* blanks: s = p1 core q1 and t = p2 core q2, with p1, q1, p2, q2 blank.
differOnlyInOuterBlanks(s, t) ==
  /\ s # t
  /\ \E a1 \in 1..(Len(s) + 1), a2 \in 1..(Len(t) + 1) :
       \E b1 \in (a1 - 1)..Len(s), b2 \in (a2 - 1)..Len(t) :
         /\ SubSeq(s, a1, b1) = SubSeq(t, a2, b2)
         /\ \A k \in (1..(a1 - 1)) \cup ((b1 + 1)..Len(s)) : s[k] \in Blank
         /\ \A k \in (1..(a2 - 1)) \cup ((b2 + 1)..Len(t)) : t[k] \in Blank

\* C9: two lines that differ only in leading or trailing whitespace, each
\* the only line of its document, give a single equal entry that carries
\* the two lines as they were given, untrimmed.
C9_WhitespaceOnlyEqual ==
  /\ pc = "done"
  /\ Len(originalLines) = 1
  /\ Len(modifiedLines) = 1
  /\ differOnlyInOuterBlanks(originalLines[1], modifiedLines[1])
  => result = <<[type |-> "equal",
                 originalLine |-> originalLines[1],
                 modifiedLine |-> modifiedLines[1],
                 originalIndex |-> 0,
                 modifiedIndex |-> 0]>>

\* Two such lines have been aligned: the equal entry holds two different
\* strings.
C9_Witness ==
  /\ pc = "done"
  /\ Len(originalLines) = 1
  /\ Len(modifiedLines) = 1
  /\ differOnlyInOuterBlanks(originalLines[1], modifiedLines[1])
  /\ Len(result) = 1
  /\ result[1].type = "equal"
  /\ result[1].originalLine # result[1].modifiedLine

\* C10: an empty original against a modified of n > 0 lines gives n insert
\* entries, the k-th holding the k-th modified line; an empty modified
\* against an original of m > 0 lines gives m delete entries, the k-th
\* holding the k-th original line; two empty documents give no entry.
C10_EmptyDocuments ==
  pc = "done" =>
    /\ originalLines = <<>> /\ modifiedLines # <<>> =>
         /\ Len(result) = Len(modifiedLines)
         /\ \A k \in DOMAIN result :
              /\ result[k].type = "insert"
              /\ result[k].modifiedLine = modifiedLines[k]
              /\ result[k].modifiedIndex = k - 1
    /\ modifiedLines = <<>> /\ originalLines # <<>> =>
         /\ Len(result) = Len(originalLines)
         /\ \A k \in DOMAIN result :
              /\ result[k].type = "delete"
              /\ result[k].originalLine = originalLines[k]
              /\ result[k].originalIndex = k - 1
    /\ originalLines = <<>> /\ modifiedLines = <<>> => result = <<>>

\* An empty document has been aligned with one of several lines.
C10_Witness ==
  /\ pc = "done"
  /\ originalLines = <<>> \/ modifiedLines = <<>>
  /\ Len(result) >= 2
  /\ result[1] # result[2]

(***************************************************************************)
(* Properties of the table.                                                *)
(***************************************************************************)
\* The lines of seq at the positions in S, in order.
RECURSIVE linesAt(_, _, _)
linesAt(seq, S, k) ==
  IF k > Len(seq)
  THEN <<>>
  ELSE (IF k \in S THEN <<seq[k]>> ELSE <<>>) \o linesAt(seq, S, k + 1)

\* sub is, line by line and up to trimming, a subsequence of seq.
RECURSIVE isSubsequence(_, _)
isSubsequence(sub, seq) ==
  IF sub = <<>> THEN TRUE
  ELSE IF seq = <<>> THEN FALSE
  ELSE IF trim(Head(sub)) = trim(Head(seq))
  THEN isSubsequence(Tail(sub), Tail(seq))
  ELSE isSubsequence(sub, Tail(seq))

\* The lengths of the common subsequences of original[0..a) and
\* modified[0..b).
commonSubsequenceLengths(original, modified, a, b) ==
  {Cardinality(S) :
     S \in {T \in SUBSET (1..a) :
              isSubsequence(linesAt(original, T, 1), SubSeq(modified, 1, b))}}

\* The table-building loops have just ended.
tableBuilt == pc = "backtrack" /\ result = <<>>

\* C11: after the table-building loops, every dp[a][b] is the length of
\* the longest common subsequence of original[0..a) and modified[0..b),
\* lines being common when their trimmed contents are equal.
C11_TableIsLcsLength ==
  tableBuilt =>
    \A a \in 0..Len(originalLines), b \in 0..Len(modifiedLines) :
      /\ dp[<<a, b>>] \in commonSubsequenceLengths(originalLines, modifiedLines, a, b)
      /\ \A l \in commonSubsequenceLengths(originalLines, modifiedLines, a, b) :
           l <= dp[<<a, b>>]

\* A table for documents of several lines whose longest common
\* subsequence leaves lines out on both sides and counts a pair of lines
\* that are equal only after trimming.
C11_Witness ==
  /\ tableBuilt
  /\ dp[<<i, j>>] >= 2
  /\ dp[<<i, j>>] < Len(originalLines)
  /\ dp[<<i, j>>] < Len(modifiedLines)
  /\ \E a \in 1..i, b \in 1..j :
       /\ originalLines[a] # modifiedLines[b]
       /\ dp[<<a, b>>] = dp[<<a - 1, b - 1>>] + 1
       /\ dp[<<a, b>>] > dp[<<a - 1, b>>]
       /\ dp[<<a, b>>] > dp[<<a, b - 1>>]

(***************************************************************************)
(* Properties of calculateSimilarity and of its edit script.               *)
(***************************************************************************)
\* The texts of the operations of script whose kind is in ops, one after
\* the other.
RECURSIVE operationText(_, _)
operationText(script, ops) ==
  IF script = <<>>
  THEN <<>>
  ELSE (IF Head(script)[1] \in ops THEN Head(script)[2] ELSE <<>>)
       \o operationText(Tail(script), ops)

\* C12: the similarity returned lies in [0, 1], and it is the length of
\* the text of the equalities of the cleaned-up script over the length of
\* the text of all of its operations.
C12_SimilarityInUnitInterval ==
  simPc = "done" =>
    /\ simResult.den > 0
    /\ 0 <= simResult.num
    /\ simResult.num <= simResult.den
    /\ Len(operationText(simDiffs, {-1, 0, 1})) > 0 =>
         simResult.num * Len(operationText(simDiffs, {-1, 0, 1}))
           = Len(operationText(simDiffs, {0})) * simResult.den

\* A similarity strictly between 0 and 1 has been returned for a script
\* of equalities, deletions and insertions.
C12_Witness ==
  /\ simPc = "done"
  /\ 0 < simResult.num
  /\ simResult.num < simResult.den
  /\ {simDiffs[k][1] : k \in DOMAIN simDiffs} = {-1, 0, 1}

\* C13 as stated: calculateSimilarity("", "") returns 1.
C13_EmptyStringsSimilarityOne ==
  simPc = "done" /\ simStr1 = <<>> /\ simStr2 = <<>> =>
    simResult.num = simResult.den

\* C14: the script diff_main returns, and the script the semantic cleanup
\* leaves, reconstruct both strings: the equalities and deletions, in
\* order, spell str1, and the equalities and insertions spell str2.
C14_ScriptReconstruction ==
  simPc \in {"diff_cleanupSemantic", "forEach", "done"} =>
    /\ operationText(simDiffs, {0, -1}) = simStr1
    /\ operationText(simDiffs, {0, 1}) = simStr2

\* The semantic cleanup has rewritten a script that holds an equality.
C14_Witness ==
  /\ simPc = "forEach"
  /\ simDiffs # diff_main(simStr1, simStr2)
  /\ \E k \in DOMAIN simDiffs : simDiffs[k][1] = 0

\* ---------------------------------------------------------------------
\* Properties of the store's compareCode
\* ---------------------------------------------------------------------

\* The documents of the store are those of the first comparison.
sameDocumentsAsFirst ==
  /\ firstComparison.taken
  /\ originalCode = firstComparison.originalCode
  /\ modifiedCode = firstComparison.modifiedCode

changedPositions == {k \in DOMAIN lineDiffs : lineDiffs[k].type # "equal"}

strictlyAscending(numbers) ==
  \A k \in 1..(Len(numbers) - 1) : numbers[k] < numbers[k + 1]

\* C16: diffLines is strictly ascending (so without duplicates) and holds
\* exactly the 1-based positions of the entries of lineDiffs that are not
\* equal entries.
C16_DiffLinesAreChangedPositions ==
  /\ strictlyAscending(diffLines)
  /\ {diffLines[k] : k \in DOMAIN diffLines} = changedPositions

\* A comparison that stored an equal entry between two changed ones.
C16_Witness ==
  /\ Len(diffLines) >= 2
  /\ \E k \in DOMAIN lineDiffs :
       /\ lineDiffs[k].type = "equal"
       /\ \E a, b \in changedPositions : a < k /\ k < b

\* The pairs of lines of the modify entries of an alignment.
modifyPairs(diffResult) ==
  {<<diffResult[k].originalLine, diffResult[k].modifiedLine>> :
     k \in {n \in DOMAIN diffResult : diffResult[n].type = "modify"}}

\* C17: the pairs of lines on which the left editor computes a character
\* diff are the pairs of the modify entries of computeLineDiff on the two
\* documents: every diffed pair is a modify pair, and every modify pair is
\* diffed.
C17_EditorDiffsModifyPairs ==
  editorDiffPairs(originalCode, modifiedCode)
    = modifyPairs(lineDiffOf(originalCode, modifiedCode))

\* ---------------------------------------------------------------------
\* Properties of the history
\* ---------------------------------------------------------------------

\* C20: the history holds at most 20 records, and so does the copy in
\* localStorage, after any sequence of compareCode, saveToHistory,
\* importHistory, loadFromHistory and clearHistory on a history of at most
\* 20 records.
C20_HistoryWithinLimit ==
  /\ Len(history) <= 20
  /\ storedHistory.stored => Len(storedHistory.records) <= 20

\* A full history into which records were imported and, after that, a
\* record was saved: both calls had to drop records.
C20_Witness ==
  /\ Len(history) = 20
  /\ storedHistory = historyItem(history)
  /\ history[1].timestamp = now
  /\ history[2] = importedNewest
  /\ history[3] = importedOlder
  /\ history[4] = storedRecord(1)
  /\ history[20] = storedRecord(17)

\* ---------------------------------------------------------------------
\* Properties of useDebounce
\* ---------------------------------------------------------------------

\* C18: the hook sets a value as its debounced value only when that value
\* is the value given to it and has been for a full delay without a change
\* (so a value that was replaced before its delay had passed is never set:
\* the value set is that of the latest change); and if the value given to
\* the hook stays the same from some time on, the debounced value is that
\* value from some time on.
C18_DebouncedValueSettles ==
  /\ [][Timeout => /\ debouncedValue' = inputValue
                   /\ unchangedFor >= DebounceDelay
                   /\ emitted' = generation]_vars
  /\ \A value \in Documents :
       <>[](inputValue = value) => <>[](debouncedValue = value)

\* Values were replaced while their timers were pending, and the value of
\* the last change was set after its delay; it is not the value the hook
\* started with.
C18_Witness ==
  /\ cleared >= 2
  /\ generation = MaxChanges
  /\ emitted = generation
  /\ debouncedValue = inputValue
  /\ unchangedFor >= DebounceDelay
  /\ handler = NoTimeout

\* ---------------------------------------------------------------------
\* Properties of Home's automatic comparison
\* ---------------------------------------------------------------------

\* C19: every compareCode called by Home's effect runs on documents that
\* have both been unchanged for a whole delay.
C19_AutoCompareOnSettledDocuments ==
  [][effectCompares => /\ originalUnchangedFor >= DebounceDelay
                       /\ modifiedUnchangedFor >= DebounceDelay]_vars

\* ---------------------------------------------------------------------
\* Properties of the backtracking loop
\* ---------------------------------------------------------------------

\* C21: every iteration of the backtracking loop decreases i + j by at
\* least 1 and leaves i and j at 0 or more; the iterations made and i + j
\* together never exceed m + n; the loop ends, and it ends with i = 0 and
\* j = 0.
C21_BacktrackingTerminates ==
  /\ [][pc = "backtrack" /\ result' # result
          => /\ i' + j' < i + j
             /\ i' >= 0
             /\ j' >= 0]_vars
  /\ [](pc \in {"backtrack", "done"}
          => Len(result) + i + j <= Len(originalLines) + Len(modifiedLines))
  /\ [](pc = "done" => i = 0 /\ j = 0)
  /\ <>(pc = "done")

\* The loop has ended on documents of the largest size after iterations
\* that decreased both indices and iterations that decreased one.
C21_Witness ==
  /\ pc = "done"
  /\ i = 0
  /\ j = 0
  /\ Len(originalLines) = MaxOriginalLines
  /\ Len(modifiedLines) = MaxModifiedLines
  /\ Len(result) > MaxOriginalLines
  /\ Len(result) < MaxOriginalLines + MaxModifiedLines

\* Both documents have been unchanged for a whole delay and no timer of
\* the two hooks is pending: nothing is left to run.
settled ==
  /\ originalUnchangedFor >= DebounceDelay
  /\ modifiedUnchangedFor >= DebounceDelay
  /\ ~handlerOriginal.pending
  /\ ~handlerModified.pending

\* C22: with autoCompare on and a comparison made before, when both
\* documents have settled and every timer has run, lineDiffs and diffLines
\* are the alignment of the documents now in the store, empty documents
\* included.
C22_SettledDocumentsAreCompared ==
  autoCompare /\ firstComparison.taken /\ settled
    => /\ lineDiffs = lineDiffOf(originalCode, modifiedCode)
       /\ diffLines = diffLinesOf(lineDiffOf(originalCode, modifiedCode))

\* ---------------------------------------------------------------------
\* Properties of the navigator
\* ---------------------------------------------------------------------

\* The place (from 1) of a line in a list of lines, 0 if it is not there.
placeIn(lines, lineNumber) ==
  IF \E k \in DOMAIN lines : lines[k] = lineNumber
  THEN CHOOSE k \in DOMAIN lines : lines[k] = lineNumber
  ELSE 0

\* The first k navigations were made over one and the same diffLines.
sameDiffLines(k) ==
  \A h \in 1..k : navigated[h].diffLines = navigated[k].diffLines

\* C23: from currentLine = 0 and over one diffLines, while only Next is
\* pressed the k-th press navigates to the k-th element of diffLines, the
\* first press to the first element; a press of Previous navigates to the
\* element before the one navigated to last; and every line navigated to
\* is an element of diffLines.
C23_NavigatorVisitsEveryDifference ==
  \A k \in DOMAIN navigated :
    /\ placeIn(navigated[k].diffLines, navigated[k].lineNumber) # 0
    /\ sameDiffLines(k) /\ (\A h \in 1..k : navigated[h].button = "next")
         => navigated[k].lineNumber = navigated[k].diffLines[k]
    /\ sameDiffLines(k) /\ k > 1 /\ navigated[k].button = "previous"
         => placeIn(navigated[k].diffLines, navigated[k].lineNumber)
              = placeIn(navigated[k].diffLines, navigated[k - 1].lineNumber) - 1

\* ---------------------------------------------------------------------
\* Properties of importHistory
\* ---------------------------------------------------------------------

\* No two records of the list have the same id.
distinctIds(records) ==
  \A a, b \in DOMAIN records : a # b => records[a].id # records[b].id

\* C24: an importHistory into a history whose ids are pairwise distinct
\* leaves a history whose ids are pairwise distinct.
C24_ImportKeepsIdsDistinct ==
  [][ImportHistory /\ distinctIds(history) => distinctIds(history')]_vars

\* ---------------------------------------------------------------------
\* Properties of the equal entries
\* ---------------------------------------------------------------------

\* The number of entries of a type in the result.
entriesOfType(type) ==
  Cardinality({k \in DOMAIN result : result[k].type = type})

\* C25: computeLineDiff returns at most dp[m][n] equal entries, and
\* exactly dp[m][n] when it returns no modify entry.
C25_EqualEntriesWithinLcs ==
  pc = "done"
    => /\ entriesOfType("equal") <= dp[<<Len(originalLines), Len(modifiedLines)>>]
       /\ entriesOfType("modify") = 0
            => entriesOfType("equal") = dp[<<Len(originalLines), Len(modifiedLines)>>]

\* A modify entry took the place of a pair of equal lines: the result has
\* fewer equal entries than the table's last cell, and still has some.
C25_Witness ==
  /\ pc = "done"
  /\ entriesOfType("modify") > 0
  /\ entriesOfType("equal") > 0
  /\ entriesOfType("equal") < dp[<<Len(originalLines), Len(modifiedLines)>>]

(***************************************************************************)
(* C26: importHistory, given data that is no valid JSON or whose parsed    *)
(* value is no array, returns false and leaves history and the persisted   *)
(* localStorage item as they were; and it returns true only when the       *)
(* merged history is the store's history and the persisted item holds it.  *)
(* Violated: saveHistoryToStorage catches the exception of setItem, so     *)
(* with the quota exceeded importHistory returns true and the persisted    *)
(* item is the old one.                                                    *)
(***************************************************************************)
notAnArray(data) == data.parsed \in {"SyntaxError", "object"}

mergedHistoryStored(data) ==
  /\ history' = mergedHistory(data.records, history)
  /\ storedHistory' = historyItem(history')

C26_ImportReturnsTrueOnlyWhenStored ==
  [][\A data \in ImportedData :
       importHistory(data) =>
         /\ notAnArray(data) =>
              importReturned' = "false" /\ UNCHANGED <<history, storedHistory>>
         /\ importReturned' = "true" => mergedHistoryStored(data)]_vars

(***************************************************************************)
(* C27: the history is kept newest first: after any sequence of            *)
(* saveToHistory (the one of compareCode included) and importHistory,      *)
(* under a clock that never goes back, the timestamps of the records of    *)
(* history do not increase from the first record to the last.              *)
(* Violated: saveToHistory puts the new record first without sorting, so   *)
(* a record saved after the import of records with later timestamps        *)
(* stands before them.                                                     *)
(***************************************************************************)
newestFirst(records) ==
  \A k \in 1..(Len(records) - 1) :
    records[k].timestamp >= records[k + 1].timestamp

C27_HistoryNewestFirst == newestFirst(history)

(***************************************************************************)
(* C28: in the left and in the right editor, for every line that has a     *)
(* character diff against the other document, the texts of the spans       *)
(* rendered for the line, put together, are the editor's own line, and a   *)
(* span has a highlight class (diff-delete on the left, diff-insert on     *)
(* the right) only if its text is in the editor's line and not in the      *)
(* other document's.                                                       *)
(* Violated: every segment of the diff is rendered, the text of the other  *)
(* document's line included, and the right editor highlights the segments  *)
(* of type 1, which are text of the original line.                         *)
(***************************************************************************)
RECURSIVE renderedText(_)
renderedText(spans) ==
  IF spans = <<>> THEN <<>> ELSE Head(spans).text \o renderedText(Tail(spans))

\* In diff_main(currentLine, otherLine) the segments of type -1 are the text
\* of currentLine that otherLine lacks.
ownTextOnly(span) == span.type = DIFF_DELETE

highlightClass(isLeft) == IF isLeft THEN "diff-delete" ELSE "diff-insert"

editorRendersOwnLine(value, otherCode, isLeft) ==
  \A k \in editorDiffIndexes(value, otherCode) :
    /\ renderedText(editorSpans(value, otherCode, isLeft, k))
         = editorLine(split(value), k)
    /\ \A n \in DOMAIN editorSpans(value, otherCode, isLeft, k) :
         editorSpans(value, otherCode, isLeft, k)[n].className # ""
           => /\ ownTextOnly(editorSpans(value, otherCode, isLeft, k)[n])
              /\ editorSpans(value, otherCode, isLeft, k)[n].className
                   = highlightClass(isLeft)

C28_EditorsRenderOwnLines ==
  /\ editorRendersOwnLine(originalCode, modifiedCode, TRUE)
  /\ editorRendersOwnLine(modifiedCode, originalCode, FALSE)

====
